---------------------------- MODULE Spec2Model ----------------------------
(***************************************************************************)
(* Verification model of cykuza-web: the browser-side Electrum RPC client  *)
(* (ElectrumClient), the server-side client (ElectrumServerClient), the    *)
(* connection management of the explorer hook and of the wallet provider,  *)
(* and the unlock/lockout logic of the wallet provider.                    *)
(*                                                                         *)
(* Each component has its own variables, initial predicate, next-state     *)
(* relation and specification; a specification leaves the variables of the *)
(* other components at their initial values.                               *)
(***************************************************************************)
EXTENDS Integers, Sequences, FiniteSets, TLC

(***************************************************************************)
(* Bounds of the model.                                                    *)
(***************************************************************************)
\* calls issued on one ElectrumClient
MaxCalls == 3
\* calls issued through ElectrumServerClient.call
MaxReqs == 2
\* configured Electrum servers of the wallet
NServers == 2
\* explicit connect() calls of the wallet
MaxConnects == 2
\* connect() invocations of the wallet running at the same time, besides the
\* one of the reconnect timer
MaxProcs == 1
\* unlockWallet calls waiting for verifyPassword at the same time
MaxInFlight == 2
\* minutes covered by the clock
MaxTime == 17

VARIABLES
    \* ---- ElectrumClient (src/lib/wallet/transaction.ts:207-337) ----
    ws,             \* readyState of this.ws: "none" before connect()
    id,             \* this.id
    pending,        \* this.pending: request id -> index of the call in calls
    subscriptions,  \* this.subscriptions: set of methods with a handler
    calls,          \* the promises returned by send(): <<[id, st, res]>>
    timers,         \* calls whose 12 s setTimeout has not fired yet
    inbox,          \* the message event about to be dispatched (<<>> or <<m>>)
    handled         \* the method whose subscription handler the last step
                    \* invoked, NoMethod when it invoked none

clientVars == <<ws, id, pending, subscriptions, calls, timers, inbox,
                handled>>

VARIABLES
    \* ---- ElectrumServerClient (src/lib/electrumServer.ts:30-425) ----
    serverless,       \* isServerless(): fixed by the process environment
    requestId,        \* this.requestId
    wsConnections,    \* this.wsConnections: url -> socket (0: no entry)
    pendingRequests,  \* this.pendingRequests: the ids with an entry
    messageHandlers,  \* this.messageHandlers: url -> socket that carries the
                      \* registered handler (0: no entry)
    socks,            \* every WebSocket created so far
    reqs              \* the promises returned by call()

serverVars == <<serverless, requestId, wsConnections, pendingRequests,
                messageHandlers, socks, reqs>>

VARIABLES
    \* ---- WalletProvider.connect (src/context/WalletContext.tsx) ----
    wStatus,             \* status
    wError,              \* error (which failure set it)
    currentServerIndex,  \* currentServerIndex
    electrumRef,         \* electrumRef.current: a client slot, 0 for null
    wClients,            \* the ElectrumClient objects still referenced
    isReconnecting,      \* isReconnectingRef.current
    reconnectTimer,      \* the pending 2 s reconnect timer: the server index
                         \* its closure captured, NoTimer when none
    wProcs,              \* the connect() invocations in progress
    connects,            \* explicit connect() calls made so far
    wDead,               \* server of the client the last health check found dead
    wLog                 \* servers attempted by the latest reconnection

walletVars == <<wStatus, wError, currentServerIndex, electrumRef, wClients,
                isReconnecting, reconnectTimer, wProcs, connects, wDead, wLog>>

VARIABLES
    \* ---- useElectrumExplorer (src/hooks/useElectrumExplorer.ts) ----
    eConnected,             \* connected
    eConnecting,            \* connecting
    eError,                 \* error (which failure set it)
    clientRef,              \* clientRef.current: index in eClients, 0 for null
    eClients,               \* the ElectrumClient objects that connected
    eIsReconnecting,        \* isReconnectingRef.current
    eTimer,                 \* the 2 s reconnect timer is pending
    currentServerIndexRef,  \* currentServerIndexRef.current
    eProcs,                 \* the connect() invocations in progress
    eConnects,              \* connect(false) / reconnect() calls made so far
    network                 \* the network option of the hook

explorerVars == <<eConnected, eConnecting, eError, clientRef, eClients,
                  eIsReconnecting, eTimer, currentServerIndexRef, eProcs,
                  eConnects, network>>

VARIABLES
    \* ---- WalletProvider.unlockWallet (src/context/WalletContext.tsx) ----
    unlockAttempts,  \* unlockAttempts
    lockoutUntil,    \* lockoutUntil, 0 for null
    ssAttempts,      \* sessionStorage wallet_unlock_attempts, 0 when absent
    ssLockout,       \* sessionStorage wallet_lockout_until, 0 when absent
    now,             \* Date.now()
    unlocks,         \* the unlockWallet calls waiting for verifyPassword
    isLocked,        \* isLocked
    unlockResult     \* how the unlockWallet call of the last step ended

lockVars == <<unlockAttempts, lockoutUntil, ssAttempts, ssLockout, now,
              unlocks, isLocked, unlockResult>>

VARIABLES
    \* ---- WalletProvider session (src/context/WalletContext.tsx) and the
    \* ---- IdleWatcher around it (src/unnamed/part_002) -------------------
    stage,               \* stage
    sIsLocked,           \* isLocked
    walletRef,           \* walletRef.current is set
    mnemonicRef,         \* mnemonicRef.current is set
    ssEncryptedData,     \* sessionStorage wallet_encrypted_data is present
    ssPasswordHash,      \* sessionStorage wallet_password_hash is present
    lastActivity,        \* sessionStorage wallet_last_activity, -1 if absent
    activityTimeoutRef,  \* the timer of updateActivity and what it captured
    idleTimer,           \* the timer of useIdleTimeout and what it captured
    isOpen,              \* WalletOverlayProvider.isOpen
    sNow,                \* Date.now(), in minutes
    sOps,                \* the initWallet and unlockWallet calls in flight
    sInputs              \* number of user events so far

sessionVars == <<stage, sIsLocked, walletRef, mnemonicRef, ssEncryptedData,
                 ssPasswordHash, lastActivity, activityTimeoutRef, idleTimer,
                 isOpen, sNow, sOps, sInputs>>

VARIABLES
    \* ---- estimateFee and buildAndSignTx (src/lib/wallet/transaction.ts) --
    txAmount,      \* amountSats
    txFeeRate,     \* feeRate, as <<numerator, denominator>>
    txUtxos,       \* the values of utxos, in order
    txIncludeFee,  \* includeFee
    txBuilt,       \* what buildAndSignTx returned or threw
    txEstimated    \* what estimateFee returned

txVars == <<txAmount, txFeeRate, txUtxos, txIncludeFee, txBuilt, txEstimated>>

VARIABLES
    \* ---- block parsing (src/lib/utils.ts, src/lib/parsers.ts) ------------
    blockHex,    \* the hex string given to the parsers, a digit per element
    blockTxs,    \* the transactions the block was serialised from
    txHashes,    \* what parseTransactionHashesFromBlock returned or threw
    headerOut,   \* what parseBlockHeader returned or threw
    blockOut,    \* what parseBlock returned or threw
    txCountOut   \* what parseTxCountFromBlockHex returned

parseVars == <<blockHex, blockTxs, txHashes, headerOut, blockOut, txCountOut>>

VARIABLES
    \* ---- calculateDifficultyFromBits (src/lib/utils.ts:171-191) ----
    dBits,        \* the argument bits, a 32-bit unsigned integer
    dDifficulty   \* the number returned, NoDifficulty before the call

difficultyVars == <<dBits, dDifficulty>>

VARIABLES
    \* ---- fetchBlockByHeight (src/lib/blockParser.ts:29-223) ----
    fbNTx,        \* transactions of the block, at positions 0..fbNTx-1
    fbResponse,   \* the server's answer to blockchain.block.header
    fbPc,         \* "header": awaiting the header, "probing": awaiting a
                  \* batch of countTransactionsInBlock, "done"
    fbParsed,     \* parsedCount
    fbStartPos,   \* startPos of the batch awaited
    fbCount,      \* count
    fbFailed,     \* some lookup of an existing position was rejected
    fbResult      \* what fetchBlockByHeight returned or threw

fetchVars == <<fbNTx, fbResponse, fbPc, fbParsed, fbStartPos, fbCount,
               fbFailed, fbResult>>

VARIABLES
    \* ---- findBlockHeightByHash (src/lib/blockParser.ts:228-332) ----
    fhTip,        \* height of the server's chain (tip.height)
    fhTarget,     \* height of the block with the requested hash, NoHeight
                  \* when no block has it
    fromHeight,   \* the hint, Undefined when none is given
    fhPc,         \* "tip": awaiting the tip, "hint" / "recent": awaiting a
                  \* batch of that loop, "done"
    heightsToCheck,  \* heightsToCheck
    fhAt,         \* i of the hint loop, batchStart of the recent loop
    fhElapsed,    \* Date.now() - searchStartTime against maxSearchTime:
                  \* 0 below, 1 equal, 2 above
    fhFailed,     \* the header fetch of the block searched for failed
    fhBatches,    \* batches awaited so far by the hint loop and by the
                  \* recent loop
    fhResult      \* what findBlockHeightByHash returned or threw

findVars == <<fhTip, fhTarget, fromHeight, fhPc, heightsToCheck, fhAt,
              fhElapsed, fhFailed, fhBatches, fhResult>>

VARIABLES
    \* ---- one ElectrumClient across its connect() calls
    \*      (src/lib/wallet/transaction.ts:207-337) and the URL check of
    \*      ElectrumServerClient.call (src/lib/electrumServer.ts:64-99) ----
    rcUrl,        \* this.url, <<>> for null
    rcSocks,      \* the WebSockets connect() created: url, readyState and
                  \* the state of the promise connect() returned
    rcWs,         \* this.ws: an index of rcSocks, 0 before the first connect
    rcId,         \* this.id
    rcPending,    \* this.pending: pairs <<id, call>>
    rcSubs,       \* this.subscriptions: the scripthash whose handler is
                  \* registered for 'blockchain.scripthash.subscribe', 0: none
    rcCalls,      \* the promises returned by send()
    rcThrew,      \* the latest connect() threw before creating a socket
    rcNotified,   \* the latest notification: the scripthash it is about and
                  \* the scripthash whose handler it invoked
    envUrl,       \* the URL getServerUrl() returns
    esCall        \* ElectrumServerClient.call: "none", "threw",
                  \* "connecting" or "sent"

reuseVars == <<rcUrl, rcSocks, rcWs, rcId, rcPending, rcSubs, rcCalls,
               rcThrew, rcNotified, envUrl, esCall>>

VARIABLES
    \* ---- the server.version check of connect()
    \*      (src/context/WalletContext.tsx:642-646,
    \*       src/hooks/useElectrumExplorer.ts:98-103) ----
    serverProtocols,  \* server index -> the protocol version the server
                      \* reports in its server.version reply
    page              \* which of the two connection managers the page
                      \* runs: "wallet", "explorer" or "none"

versionVars == <<serverProtocols, page>>

VARIABLES
    \* ---- rateLimit (src/unnamed/part_003) ----
    requestCounts,  \* requestCounts: ip -> { count, resetTime }
    rNow,           \* Date.now(), in units of 20 s
    maxRequests,    \* maxRequests, from RATE_LIMIT_REQUESTS
    nextCleanup,    \* when the cleanup interval fires next
    rGranted,       \* per ip, the requests that got success = true now,
                    \* one unit of time ago, ... (windowMs entries)
    rLast           \* the latest request and its result

rateVars == <<requestCounts, rNow, maxRequests, nextCleanup, rGranted, rLast>>

VARIABLES
    \* ---- the wallet creation and import flows (WalletContext.tsx) ----
    flowStage,        \* stage
    importType,       \* importType
    pendingMnemonic,  \* pendingMnemonic: 0 for null, else which mnemonic
    pendingPassword,  \* pendingPassword: 0 for null, else which password
    flowLocked,       \* isLocked
    generated,        \* generateMnemonic() calls so far
    lastOp            \* the handler that ran last

flowVars == <<flowStage, importType, pendingMnemonic, pendingPassword,
              flowLocked, generated, lastOp>>

VARIABLES
    \* ---- GET /api/block (src/unnamed/part_004:7-143) ----
    apiHeight,   \* searchParams.get('height')
    apiHash,     \* searchParams.get('hash')
    apiBackend,  \* how the ElectrumX lookups of the request end
    apiAnswer    \* the response of GET

routeVars == <<apiHeight, apiHash, apiBackend, apiAnswer>>

VARIABLES
    \* ---- WalletProvider.lockWallet, getUtxos and send
    \* ---- (src/context/WalletContext.tsx:754-790, 973-995) ----
    wIsLocked,  \* isLocked
    wRefs,      \* walletRef.current and scripthashRef.current are set
    spends,     \* the getUtxos() and send() calls waiting for a reply
    lastSpend   \* what the last step of a getUtxos() or send() did, and
                \* whether the wallet was locked at that moment

spendVars == <<wIsLocked, wRefs, spends, lastSpend>>

vars == <<clientVars, serverVars, walletVars, explorerVars, lockVars,
        sessionVars, txVars, parseVars, difficultyVars, fetchVars, findVars,
        reuseVars, versionVars, rateVars, flowVars, routeVars, spendVars>>

\* what the steps of one component leave alone
otherThanClient == <<serverVars, walletVars, explorerVars, lockVars,
        sessionVars, txVars, parseVars, difficultyVars, fetchVars, findVars,
        reuseVars, versionVars, rateVars, flowVars, routeVars, spendVars>>
otherThanServer == <<clientVars, walletVars, explorerVars, lockVars,
        sessionVars, txVars, parseVars, difficultyVars, fetchVars, findVars,
        reuseVars, versionVars, rateVars, flowVars, routeVars, spendVars>>
otherThanWallet == <<clientVars, serverVars, explorerVars, lockVars,
        sessionVars, txVars, parseVars, difficultyVars, fetchVars, findVars,
        reuseVars, versionVars, rateVars, flowVars, routeVars, spendVars>>
otherThanExplorer == <<clientVars, serverVars, walletVars, lockVars,
        sessionVars, txVars, parseVars, difficultyVars, fetchVars, findVars,
        reuseVars, versionVars, rateVars, flowVars, routeVars, spendVars>>
otherThanLock == <<clientVars, serverVars, walletVars, explorerVars,
        sessionVars, txVars, parseVars, difficultyVars, fetchVars, findVars,
        reuseVars, versionVars, rateVars, flowVars, routeVars, spendVars>>
otherThanSession == <<clientVars, serverVars, walletVars, explorerVars,
        lockVars, txVars, parseVars, difficultyVars, fetchVars, findVars,
        reuseVars, versionVars, rateVars, flowVars, routeVars, spendVars>>
otherThanTx == <<clientVars, serverVars, walletVars, explorerVars, lockVars,
        sessionVars, parseVars, difficultyVars, fetchVars, findVars,
        reuseVars, versionVars, rateVars, flowVars, routeVars, spendVars>>
otherThanParse == <<clientVars, serverVars, walletVars, explorerVars,
        lockVars, sessionVars, txVars, difficultyVars, fetchVars, findVars,
        reuseVars, versionVars, rateVars, flowVars, routeVars, spendVars>>
otherThanDifficulty == <<clientVars, serverVars, walletVars, explorerVars,
        lockVars, sessionVars, txVars, parseVars, fetchVars, findVars,
        reuseVars, versionVars, rateVars, flowVars, routeVars, spendVars>>
otherThanFetch == <<clientVars, serverVars, walletVars, explorerVars,
        lockVars, sessionVars, txVars, parseVars, difficultyVars, findVars,
        reuseVars, versionVars, rateVars, flowVars, routeVars, spendVars>>
otherThanFind == <<clientVars, serverVars, walletVars, explorerVars,
        lockVars, sessionVars, txVars, parseVars, difficultyVars, fetchVars,
        reuseVars, versionVars, rateVars, flowVars, routeVars, spendVars>>
otherThanReuse == <<clientVars, serverVars, walletVars, explorerVars,
        lockVars, sessionVars, txVars, parseVars, difficultyVars, fetchVars,
        findVars, versionVars, rateVars, flowVars, routeVars, spendVars>>
otherThanVersion == <<clientVars, serverVars, walletVars, explorerVars,
        lockVars, sessionVars, txVars, parseVars, difficultyVars, fetchVars,
        findVars, reuseVars, rateVars, flowVars, routeVars, spendVars>>
otherThanRate == <<clientVars, serverVars, walletVars, explorerVars,
        lockVars, sessionVars, txVars, parseVars, difficultyVars, fetchVars,
        findVars, reuseVars, versionVars, flowVars, routeVars, spendVars>>
otherThanFlow == <<clientVars, serverVars, walletVars, explorerVars,
        lockVars, sessionVars, txVars, parseVars, difficultyVars, fetchVars,
        findVars, reuseVars, versionVars, rateVars, routeVars, spendVars>>
otherThanRoute == <<clientVars, serverVars, walletVars, explorerVars,
        lockVars, sessionVars, txVars, parseVars, difficultyVars, fetchVars,
        findVars, reuseVars, versionVars, rateVars, flowVars, spendVars>>
otherThanSpend == <<clientVars, serverVars, walletVars, explorerVars,
        lockVars, sessionVars, txVars, parseVars, difficultyVars, fetchVars,
        findVars, reuseVars, versionVars, rateVars, flowVars, routeVars>>
\* lockWallet acts on the connection and on the wallet's references
otherThanWalletAndSpend == <<clientVars, serverVars, explorerVars, lockVars,
        sessionVars, txVars, parseVars, difficultyVars, fetchVars, findVars,
        reuseVars, versionVars, rateVars, flowVars, routeVars>>

(***************************************************************************)
(* Generic helpers on finite maps (JavaScript Map).                        *)
(***************************************************************************)
MapPut(m, k, v) == [x \in DOMAIN m \cup {k} |-> IF x = k THEN v ELSE m[x]]
MapDel(m, k) == [x \in DOMAIN m \ {k} |-> m[x]]
EmptyMap == [x \in {} |-> 0]

(***************************************************************************)
(* ElectrumServerClient before its first call.                             *)
(***************************************************************************)
Urls == {"mainnet", "testnet"}

ServerStart ==
    /\ requestId = 0
    /\ wsConnections = [u \in Urls |-> 0]
    /\ pendingRequests = {}
    /\ messageHandlers = [u \in Urls |-> 0]
    /\ socks = <<>>
    /\ reqs = <<>>

ServerIdle == serverless = FALSE /\ ServerStart

(***************************************************************************)
(* WalletProvider before its first connect.                                *)
(***************************************************************************)
\* getUtxos() and send() calls waiting for a reply at one time
MaxSpends == 1

\* client objects alive at one time: the current one, those of the connects
\* in progress and those a waiting getUtxos() or send() still holds
MaxClients == MaxConnects + 1 + MaxSpends

NoTimer == 0 - 1

NoClient ==
    [used |-> FALSE, server |-> 0, connected |-> FALSE, interval |-> FALSE,
     capt |-> 0]

WalletStart ==
    /\ wStatus = "disconnected"
    /\ wError = "none"
    /\ currentServerIndex = 0
    /\ electrumRef = 0
    /\ wClients = [k \in 1..MaxClients |-> NoClient]
    /\ isReconnecting = FALSE
    /\ reconnectTimer = NoTimer
    /\ wProcs = <<>>
    /\ connects = 0
    /\ wDead = 0
    /\ wLog = <<>>

(***************************************************************************)
(* useElectrumExplorer before its mount effect runs.                       *)
(***************************************************************************)
ExplorerStart ==
    /\ eConnected = FALSE
    /\ eConnecting = FALSE
    /\ eError = "none"
    /\ clientRef = 0
    /\ eClients = <<>>
    /\ eIsReconnecting = FALSE
    /\ eTimer = FALSE
    /\ currentServerIndexRef = 0
    /\ eProcs = <<>>
    /\ eConnects = 0
    /\ network = "mainnet"

(***************************************************************************)
(* The unlock state of a page that finds a stored wallet: locked, no       *)
(* failed attempt yet.                                                     *)
(***************************************************************************)
MAX_UNLOCK_ATTEMPTS == 5

\* 15 * 60 * 1000 ms, in minutes
LOCKOUT_DURATION == 15

LockStart ==
    /\ unlockAttempts = 0
    /\ lockoutUntil = 0
    /\ ssAttempts = 0
    /\ ssLockout = 0
    /\ now = 1
    /\ unlocks = <<>>
    /\ isLocked = TRUE
    /\ unlockResult = "none"

(***************************************************************************)
(*                         ElectrumClient                                  *)
\* 10 * 60 * 1000 ms, in minutes
SESSION_TIMEOUT_MS == 10

\* the session is followed for this many minutes
MaxSessionTime == 12

\* the user does at most this many things
MaxInputs == 3

\* initWallet and unlockWallet calls running at once
MaxOps == 2

\* activityTimeoutRef.current when no timer is set
NoTimeout == [at |-> NoTimer, locked |-> FALSE, stage |-> "idle"]

\* the idle timer after it has fired
NoIdleTimer == [at |-> NoTimer, open |-> FALSE]

\* the overlay is open on the new wallet's mnemonic, which is displayed
\* and not yet confirmed
SessionStart ==
    /\ stage = "mnemonic-display"
    /\ sIsLocked = FALSE
    /\ walletRef = FALSE
    /\ mnemonicRef = FALSE
    /\ ssEncryptedData = FALSE
    /\ ssPasswordHash = FALSE
    /\ lastActivity = NoTimer
    /\ activityTimeoutRef = NoTimeout
    /\ idleTimer = [at |-> SESSION_TIMEOUT_MS, open |-> TRUE]
    /\ isOpen = TRUE
    /\ sNow = 0
    /\ sOps = <<>>
    /\ sInputs = 0

\* utxos has at most this many entries
MaxUtxos == 2

\* if (change > 546)
DustLimit == 546

\* amountSats: not positive, below and at the fee of one input, above it
Amounts == {0 - 1, 0, 100, 109, 1000}

\* utxo.value
UtxoValues == {300, 1140, 1686, 1687, 3000}

\* feeRate in sats per vbyte: 1, 1.5 and 10
FeeRates == {<<1, 1>>, <<3, 2>>, <<10, 1>>}

UtxoLists == UNION {[1..n -> UtxoValues] : n \in 0..MaxUtxos}

\* buildAndSignTx not called yet
NotBuilt == [kind |-> "none", inputs |-> 0, outs |-> <<>>, fee |-> 0]

\* estimateFee not called yet
NotEstimated ==
    [called |-> FALSE, estimatedFee |-> 0, actualAmountSats |-> 0,
     totalNeeded |-> 0]

\* no call made
TxPending == txBuilt = NotBuilt /\ txEstimated = NotEstimated

\* a spend that is never made
TxIdle ==
    /\ txAmount = 1000
    /\ txFeeRate = <<1, 1>>
    /\ txUtxos = <<3000>>
    /\ txIncludeFee = FALSE
    /\ TxPending

\* any spend of the wallet
TxStart ==
    /\ txAmount \in Amounts
    /\ txFeeRate \in FeeRates
    /\ txUtxos \in UtxoLists
    /\ txIncludeFee \in BOOLEAN
    /\ TxPending

\* a block has at most this many transactions
MaxTxs == 2

\* bytes that follow the first byte of the transaction count
MaxTailBytes == 8

\* parseTransactionHashesFromBlock not called yet
NoHashes == [called |-> FALSE, threw |-> FALSE, hashes |-> <<>>]

\* a header that was not decoded
NoHeader ==
    [called |-> FALSE, err |-> "none", hash |-> <<>>, version |-> 0,
     prevHash |-> <<>>, merkleRoot |-> <<>>, timestamp |-> 0, bits |-> 0,
     nonce |-> 0]

\* parseBlock not called yet
NoBlock ==
    [called |-> FALSE, err |-> "none", header |-> NoHeader, size |-> 0,
     tx_count |-> 0]

\* parseTxCountFromBlockHex not called yet
NoCount == [called |-> FALSE, value |-> 0]

\* no parser called
ParsePending ==
    /\ txHashes = NoHashes
    /\ headerOut = NoHeader
    /\ blockOut = NoBlock
    /\ txCountOut = NoCount

\* no block is ever parsed
ParseIdle ==
    /\ blockHex = <<>>
    /\ blockTxs = <<>>
    /\ ParsePending

\* exponent bytes of the bits values the function is applied to
MaxExponent == 32

\* the low three bytes of the bits values the function is applied to
\* (0x80ffff has the sign bit of the compact format set)
Mantissas == {0, 1, 128, 32768, 65535, 8388607, 8454143}

\* calculateDifficultyFromBits not called yet
NoDifficulty == [called |-> FALSE, n |-> 0, d |-> 1, e |-> 0]

\* the function is never called
DifficultyIdle ==
    /\ dBits = 0
    /\ dDifficulty = NoDifficulty

\* the function is about to be called on some bits value
DifficultyStart ==
    /\ dBits \in {e * 16777216 + m : e \in 0..MaxExponent, m \in Mantissas}
    /\ dDifficulty = NoDifficulty

\* blockParser.ts:36 maxAttempts
maxAttempts == 10000

\* blockParser.ts:39 batchSize
batchSize == 50

\* lookups of one batch that fail although the position exists
MaxFails == 1

\* a field the response object does not have
Undefined == -1

\* fetchBlockByHeight still running
NoFetch == [status |-> "pending", tx_count |-> 0]

\* fetchBlockByHeight is never called
FetchIdle ==
    /\ fbNTx = 0
    /\ fbResponse = [type |-> "none"]
    /\ fbPc = "done"
    /\ fbParsed = 0
    /\ fbStartPos = 0
    /\ fbCount = 0
    /\ fbFailed = FALSE
    /\ fbResult = NoFetch

\* blockParser.ts:242 searchRange
searchRange == 200

\* blockParser.ts:257, 294 batchSize
searchBatchSize == 20

\* blockParser.ts:293 recentLimit
recentLimit == 1000

\* no block, the value null of a height
NoHeight == -2

\* findBlockHeightByHash still running
NoFind == [status |-> "pending", height |-> NoHeight]

\* findBlockHeightByHash is never called
FindIdle ==
    /\ fhTip = 0
    /\ fhTarget = NoHeight
    /\ fromHeight = Undefined
    /\ fhPc = "done"
    /\ heightsToCheck = <<>>
    /\ fhAt = 0
    /\ fhElapsed = 0
    /\ fhFailed = FALSE
    /\ fhBatches = [hint |-> 0, recent |-> 0]
    /\ fhResult = NoFind

\* WebSockets created by one ElectrumClient
MaxSocks == 2

\* requests sent through one ElectrumClient across its connections
MaxSends == 2

\* scripthashes the wallet subscribes to
NScripthashes == 2

\* no notification delivered yet
NoNotification == [scripthash |-> 0, handler |-> 0]

\* an ElectrumClient as constructed; ElectrumServerClient.call not made
ReuseStart ==
    /\ rcUrl = <<>>
    /\ rcSocks = <<>>
    /\ rcWs = 0
    /\ rcId = 0
    /\ rcPending = {}
    /\ rcSubs = 0
    /\ rcCalls = <<>>
    /\ rcThrew = FALSE
    /\ rcNotified = NoNotification
    /\ esCall = "none"

\* the client is never used and no server URL is read
ReuseIdle ==
    /\ ReuseStart
    /\ envUrl = <<>>

\* protocol versions as the lists of their numbers; <<>> stands for a reply
\* that holds no number
Protocols ==
    {<<>>, <<0, 10>>, <<1, 3>>, <<1, 3, 9>>, <<1, 4>>, <<1, 4, 2>>,
     <<1, 10>>, <<2, 0>>}

\* no page checks a server version
VersionIdle ==
    /\ serverProtocols = <<>>
    /\ page = "none"

(***************************************************************************)
(* The rate limiter before any request.                                    *)
(***************************************************************************)
MaxRequests == 3

MaxRateTime == 7

\* RATE_LIMIT_WINDOW, 60000 ms by default
windowMs == 3

\* the period of the cleanup interval, 60000 ms
cleanupMs == 3

Ips == {"a", "b"}

NoRecord == [count |-> 0, resetTime |-> 0 - 1]

NoResult == [ip |-> "none", success |-> TRUE, remaining |-> 0]

RateIdle ==
    /\ requestCounts = [ip \in Ips |-> NoRecord]
    /\ rNow = 0
    /\ maxRequests = 1
    /\ nextCleanup = 0
    /\ rGranted = [ip \in Ips |-> [t \in 1..windowMs |-> 0]]
    /\ rLast = NoResult

(***************************************************************************)
(* The wallet overlay of a freshly loaded page.                            *)
(***************************************************************************)
MaxMnemonics == 2

Passwords == 1..2

FlowIdle ==
    /\ flowStage = "idle"
    /\ importType = "null"
    /\ pendingMnemonic = 0
    /\ pendingPassword = 0
    /\ flowLocked = FALSE
    /\ generated = 0
    /\ lastOp = "none"

(***************************************************************************)
(* GET /api/block before a request.                                        *)
(***************************************************************************)
\* a query parameter that is not in the URL
Absent == [present |-> FALSE, text |-> <<>>]

NoAnswer == [status |-> 0, error |-> "none", fetched |-> 0 - 1]

RouteIdle ==
    /\ apiHeight = Absent
    /\ apiHash = "absent"
    /\ apiBackend = "ok"
    /\ apiAnswer = NoAnswer

(***************************************************************************)
(* The unlocked wallet before its first getUtxos or send.                  *)
(***************************************************************************)
NoSpend == [op |-> "none", what |-> "none", at |-> "none", locked |-> FALSE]

SpendStart ==
    /\ wIsLocked = FALSE
    /\ wRefs = TRUE
    /\ spends = <<>>
    /\ lastSpend = NoSpend

SpendIdle == SpendStart

(***************************************************************************)
Results == {"ra", "rb"}
NoRes == "none"
NoMethod == "none"
SubMethod == "blockchain.scripthash.subscribe"
OtherMethod == "blockchain.headers.subscribe"

\* The JSON payloads a peer can put on the socket.  id 0 stands for a
\* payload without an id field; method NoMethod for one without method/params.
ResponseMsgs == [id : 0..MaxCalls, error : {FALSE}, result : Results,
                 method : {NoMethod}]
ErrorMsgs == [id : 0..MaxCalls, error : {TRUE}, result : {NoRes},
              method : {NoMethod}]
NotifyMsgs == [id : 0..MaxCalls, error : {FALSE}, result : {NoRes},
               method : {SubMethod, OtherMethod}]
Messages == ResponseMsgs \cup ErrorMsgs \cup NotifyMsgs

\* A promise settles once: resolve/reject on a settled promise is a no-op.
Settle(cs, c, st, res) ==
    IF cs[c].st = "pending"
    THEN [cs EXCEPT ![c].st = st, ![c].res = res]
    ELSE cs

\* const id = ++this.id
NextIdStuck(i) == 1
NextId(i) == i + 1

\* this.pending.forEach(({ reject }) => reject(new Error('Disconnected')))
RECURSIVE RejectEach(_, _, _)
RejectEach(cs, p, ids) ==
    IF ids = {} THEN cs
    ELSE LET i == CHOOSE x \in ids : TRUE
         IN RejectEach(Settle(cs, p[i], "rejClosed", NoRes), p, ids \ {i})

RejectAllForgotten(cs, p) == cs
RejectAll(cs, p) == RejectEach(cs, p, DOMAIN p)

\* reset(): reject every pending call, clear pending and subscriptions
Reset ==
    /\ calls' = RejectAll(calls, pending)
    /\ pending' = EmptyMap
    /\ subscriptions' = {}

\* this.pending.delete(id) in the timeout callback
TimeoutDeleteAll(p, i) == EmptyMap
TimeoutDelete(p, i) == MapDel(p, i)

ClientInit ==
    /\ ws = "none"
    /\ id = 0
    /\ pending = EmptyMap
    /\ subscriptions = {}
    /\ calls = <<>>
    /\ timers = {}
    /\ inbox = <<>>
    /\ handled = NoMethod

\* connect(url) on a freshly constructed client (every caller constructs one
\* ElectrumClient per connection attempt)
Connect ==
    /\ ws = "none"
    /\ ws' = "CONNECTING"
    /\ id' = 0
    /\ pending' = EmptyMap
    /\ subscriptions' = {}
    /\ handled' = NoMethod
    /\ UNCHANGED <<calls, timers, inbox>>
    /\ UNCHANGED otherThanClient

\* 'open' event
WsOpen ==
    /\ ws = "CONNECTING"
    /\ ws' = "OPEN"
    /\ handled' = NoMethod
    /\ UNCHANGED <<id, pending, subscriptions, calls, timers, inbox>>
    /\ UNCHANGED otherThanClient

\* send(method, params); sub = TRUE is subscribeScripthash, which registers
\* the handler before it sends
Send(sub) ==
    /\ Len(calls) < MaxCalls
    /\ subscriptions' = IF sub THEN subscriptions \cup {SubMethod}
                        ELSE subscriptions
    /\ IF ws # "OPEN"
       THEN /\ calls' = Append(calls, [id |-> 0, st |-> "rejNotConnected",
                                       res |-> NoRes])
            /\ UNCHANGED <<id, pending, timers>>
       ELSE /\ id' = NextId(id)
            /\ calls' = Append(calls, [id |-> id', st |-> "pending",
                                       res |-> NoRes])
            /\ pending' = MapPut(pending, id', Len(calls) + 1)
            /\ timers' = timers \cup {Len(calls) + 1}
    /\ handled' = NoMethod
    /\ UNCHANGED <<ws, inbox>>
    /\ UNCHANGED otherThanClient

\* the peer writes a message; it is dispatched as one 'message' event
PeerSend(m) ==
    /\ ws = "OPEN"
    /\ inbox = <<>>
    /\ inbox' = <<m>>
    /\ handled' = NoMethod
    /\ UNCHANGED <<ws, id, pending, subscriptions, calls, timers>>
    /\ UNCHANGED otherThanClient

\* onMessage(event)
OnMessage ==
    /\ inbox # <<>>
    /\ LET m == Head(inbox) IN
       IF m.id # 0 /\ m.id \in DOMAIN pending
       THEN /\ pending' = MapDel(pending, m.id)
            /\ calls' = IF m.error
                        THEN Settle(calls, pending[m.id], "rejError", NoRes)
                        ELSE Settle(calls, pending[m.id], "resolved", m.result)
            /\ handled' = NoMethod
       ELSE /\ handled' = IF m.method # NoMethod /\ m.method \in subscriptions
                          THEN m.method
                          ELSE NoMethod
            /\ UNCHANGED <<pending, calls>>
    /\ inbox' = <<>>
    /\ UNCHANGED <<ws, id, subscriptions, timers>>
    /\ UNCHANGED otherThanClient

\* the setTimeout callback of call c (12 s after send)
Timeout(c) ==
    /\ c \in timers
    /\ timers' = timers \ {c}
    /\ IF calls[c].id \in DOMAIN pending
       THEN /\ pending' = TimeoutDelete(pending, calls[c].id)
            /\ calls' = Settle(calls, c, "rejTimeout", NoRes)
       ELSE UNCHANGED <<pending, calls>>
    /\ handled' = NoMethod
    /\ UNCHANGED <<ws, id, subscriptions, inbox>>
    /\ UNCHANGED otherThanClient

\* the peer (or the network) closes the socket: 'close' event -> reset()
PeerClose ==
    /\ ws \in {"CONNECTING", "OPEN"}
    /\ ws' = "CLOSED"
    /\ Reset
    /\ inbox' = <<>>
    /\ handled' = NoMethod
    /\ UNCHANGED <<id, timers>>
    /\ UNCHANGED otherThanClient

\* disconnect(): this.ws?.close(); this.reset()
Disconnect ==
    /\ ws \in {"CONNECTING", "OPEN"}
    /\ ws' = "CLOSING"
    /\ Reset
    /\ inbox' = <<>>
    /\ handled' = NoMethod
    /\ UNCHANGED <<id, timers>>
    /\ UNCHANGED otherThanClient

\* the 'close' event that follows disconnect(): reset() once more
WsCloseEvent ==
    /\ ws = "CLOSING"
    /\ ws' = "CLOSED"
    /\ Reset
    /\ handled' = NoMethod
    /\ UNCHANGED <<id, timers, inbox>>
    /\ UNCHANGED otherThanClient

NextClient ==
    \/ Connect
    \/ WsOpen
    \/ \E sub \in BOOLEAN : Send(sub)
    \/ \E m \in Messages : PeerSend(m)
    \/ OnMessage
    \/ \E c \in 1..MaxCalls : Timeout(c)
    \/ PeerClose
    \/ Disconnect
    \/ WsCloseEvent

\* the client alone: every other component stays as constructed
InitClient ==
    ClientInit /\ ServerIdle /\ WalletStart /\ ExplorerStart /\ LockStart /\ SessionStart /\ TxIdle /\ ParseIdle
      /\ DifficultyIdle /\ FetchIdle /\ FindIdle /\ ReuseIdle /\ VersionIdle /\ RateIdle /\ FlowIdle /\ RouteIdle /\ SpendIdle

SpecClient == InitClient /\ [][NextClient]_vars

(***************************************************************************)
(* Claims about ElectrumClient (checked under SpecClient).                 *)
(***************************************************************************)
\* a step that dispatches the message in the inbox to onMessage
OnMessageStep == inbox # <<>> /\ inbox' = <<>> /\ ws' = ws

PendingCalls == {c \in DOMAIN calls : calls[c].st = "pending"}

\* C1: responses are correlated by id, not by order.  A call is resolved or
\* rejected with a peer error only by the message whose id is the id the call
\* was assigned, and gets that message's result; a dispatched message whose
\* id is the id of a pending call settles that call and no other; every id
\* handed out is larger than all ids handed out before, and no two pending
\* calls share an id.
C1_IdCorrelation ==
    /\ [](\A c, d \in PendingCalls : c # d => calls[c].id # calls[d].id)
    /\ [][/\ \A c \in DOMAIN calls :
               (calls[c].st = "pending"
                    /\ calls'[c].st \in {"resolved", "rejError"}) =>
                  /\ OnMessageStep
                  /\ Head(inbox).id = calls[c].id
                  /\ calls'[c].st = "resolved" <=> ~Head(inbox).error
                  /\ calls'[c].res = Head(inbox).result
                  /\ \A d \in DOMAIN calls \ {c} : calls'[d] = calls[d]
          /\ \A c \in PendingCalls :
               (OnMessageStep /\ Head(inbox).id = calls[c].id) =>
                  calls'[c].st \in {"resolved", "rejError"}
          /\ \A c \in DOMAIN calls' \ DOMAIN calls :
               calls'[c].st = "pending" =>
                  \A d \in DOMAIN calls : calls'[c].id > calls[d].id
         ]_vars

\* C1 witness: three calls in flight, the response to the third call has been
\* delivered first and resolved it while calls 1 and 2 are still pending.
C1_Witness ==
    /\ Len(calls) >= 3
    /\ calls[1].id = 1 /\ calls[2].id = 2 /\ calls[3].id = 3
    /\ calls[3].st = "resolved" /\ calls[3].res = "rb"
    /\ calls[1].st = "pending" /\ calls[2].st = "pending"

C5_Demux ==
    [][OnMessageStep =>
          /\ Head(inbox).id = 0 =>
                /\ pending' = pending
                /\ calls' = calls
                /\ handled' \in {NoMethod, Head(inbox).method}
          /\ Head(inbox).id # 0 => handled' = NoMethod
      ]_vars

\* The part of C5 the code keeps: messages without an id never touch the
\* pending table and reach at most one handler.
C5_NotificationsOnly ==
    [][(OnMessageStep /\ Head(inbox).id = 0) =>
          /\ pending' = pending
          /\ calls' = calls
          /\ handled' \in {NoMethod, Head(inbox).method}
      ]_vars

(***************************************************************************)
(*                       ElectrumServerClient                              *)
(***************************************************************************)
SrvMessages ==
    [id : 0..MaxReqs, error : {FALSE}, result : Results]
        \cup [id : 0..MaxReqs, error : {TRUE}, result : {NoRes}]

\* clearTimeout(timeout) of one call's request timer
ClearTimer(rs, r) == [rs EXCEPT ![r].timer = FALSE]

\* pending.resolve / pending.reject stored by callWebSocket: the wrapper
\* clears the 15 s timer, then settles the promise
SettleReq(rs, r, st, res) == ClearTimer(Settle(rs, r, st, res), r)

RECURSIVE SettleEach(_, _, _)
SettleEach(rs, ids, st) ==
    IF ids = {} THEN rs
    ELSE LET i == CHOOSE x \in ids : TRUE
         IN SettleEach(SettleReq(rs, i, st, NoRes), ids \ {i}, st)

\* handler = messageHandlers.get(url); if (handler && ws)
\*     ws.removeEventListener('message', handler)
RemoveHandler(ss, u, k) ==
    IF messageHandlers[u] = k THEN [ss EXCEPT ![k].handler = FALSE] ELSE ss

\* ws.close(): a socket that is connecting or open starts closing
CloseSock(ss, k) ==
    IF ss[k].st \in {"CONNECTING", "OPEN"}
    THEN [ss EXCEPT ![k].st = "CLOSING"] ELSE ss

\* cleanup() of callWebSocketOneTime for the call that owns socket k
Cleanup(ss, k) == CloseSock([ss EXCEPT ![k].handler = FALSE], k)

NewSock(u, r, oneTime) ==
    [url |-> u, st |-> "CONNECTING", owner |-> r, handler |-> oneTime,
     connTimer |-> ~oneTime, errFired |-> FALSE]

NewReq(u, k) ==
    [url |-> u, st |-> "pending", res |-> NoRes, timer |-> TRUE, sock |-> k]

ServerInit ==
    /\ ClientInit /\ WalletStart /\ ExplorerStart /\ LockStart /\ SessionStart /\ TxIdle /\ ParseIdle
      /\ DifficultyIdle /\ FetchIdle /\ FindIdle /\ ReuseIdle /\ VersionIdle /\ RateIdle /\ FlowIdle /\ RouteIdle /\ SpendIdle
    /\ serverless \in BOOLEAN /\ ServerStart

\* call(network, method, params) -> callWebSocketOneTime
CallOneTime(u) ==
    /\ serverless
    /\ Len(reqs) < MaxReqs
    /\ requestId' = requestId + 1
    /\ socks' = Append(socks, NewSock(u, requestId', TRUE))
    /\ reqs' = Append(reqs, NewReq(u, Len(socks) + 1))
    /\ UNCHANGED <<serverless, wsConnections, pendingRequests,
                   messageHandlers>>
    /\ UNCHANGED otherThanServer

\* call(network, method, params) -> callWebSocket
CallReuse(u) ==
    /\ ~serverless
    /\ Len(reqs) < MaxReqs
    /\ requestId' = requestId + 1
    /\ pendingRequests' = pendingRequests \cup {requestId'}
    /\ LET w == wsConnections[u] IN
         IF w # 0 /\ socks[w].st = "OPEN"
         THEN \* reuse the open connection: setupMessageHandler, send
              /\ socks' = [socks EXCEPT ![w].handler = TRUE]
              /\ messageHandlers' = [messageHandlers EXCEPT ![u] = w]
              /\ reqs' = Append(reqs, NewReq(u, w))
              /\ UNCHANGED wsConnections
         ELSE IF w # 0 /\ socks[w].st = "CONNECTING"
         THEN \* wait for the registered connection to open
              /\ reqs' = Append(reqs, NewReq(u, w))
              /\ UNCHANGED <<socks, messageHandlers, wsConnections>>
         ELSE \* no connection registered (or a dead one): connect()
              /\ wsConnections' = [wsConnections EXCEPT ![u] = 0]
              /\ socks' = Append(socks, NewSock(u, requestId', FALSE))
              /\ reqs' = Append(reqs, NewReq(u, Len(socks) + 1))
              /\ UNCHANGED messageHandlers
    /\ UNCHANGED serverless
    /\ UNCHANGED otherThanServer

\* 'open' event of socket k
SrvOpen(k) ==
    /\ k \in DOMAIN socks
    /\ socks[k].st = "CONNECTING"
    /\ IF serverless
       THEN /\ socks' = [socks EXCEPT ![k].st = "OPEN"]
            /\ UNCHANGED <<wsConnections, messageHandlers>>
       ELSE /\ socks' = [socks EXCEPT ![k].st = "OPEN",
                                      ![k].connTimer = FALSE,
                                      ![k].handler = TRUE]
            /\ wsConnections' = [wsConnections EXCEPT ![socks[k].url] = k]
            /\ messageHandlers' = [messageHandlers EXCEPT ![socks[k].url] = k]
    /\ UNCHANGED <<serverless, requestId, pendingRequests, reqs>>
    /\ UNCHANGED otherThanServer

\* 'error' event of socket k (at most one per socket); the socket then closes
SrvError(k) ==
    /\ k \in DOMAIN socks
    /\ socks[k].st \in {"CONNECTING", "OPEN", "CLOSING"}
    /\ ~socks[k].errFired
    /\ LET u == socks[k].url
           o == socks[k].owner
       IN IF serverless
          THEN /\ socks' = [Cleanup(socks, k) EXCEPT ![k].errFired = TRUE]
               /\ reqs' = Settle(ClearTimer(reqs, o), o, "rejError", NoRes)
               /\ UNCHANGED <<wsConnections, messageHandlers, pendingRequests>>
          ELSE /\ socks' = [CloseSock(RemoveHandler(socks, u, k), k)
                               EXCEPT ![k].errFired = TRUE,
                                      ![k].connTimer = FALSE]
               /\ wsConnections' = [wsConnections EXCEPT ![u] = 0]
               /\ messageHandlers' = [messageHandlers EXCEPT ![u] = 0]
               /\ IF o \in pendingRequests
                  THEN /\ pendingRequests' = pendingRequests \ {o}
                       /\ reqs' = SettleReq(reqs, o, "rejError", NoRes)
                  ELSE UNCHANGED <<pendingRequests, reqs>>
    /\ UNCHANGED <<serverless, requestId>>
    /\ UNCHANGED otherThanServer

\* 'close' event of socket k: the peer closed an open socket, or a closing
\* socket finished closing
SrvClose(k) ==
    /\ k \in DOMAIN socks
    /\ socks[k].st \in {"OPEN", "CLOSING"}
    /\ LET u == socks[k].url
           o == socks[k].owner
       IN IF serverless
          THEN /\ socks' = [socks EXCEPT ![k].st = "CLOSED",
                                         ![k].handler = FALSE]
               /\ reqs' = ClearTimer(reqs, o)
               /\ UNCHANGED <<wsConnections, messageHandlers, pendingRequests>>
          ELSE /\ socks' = [RemoveHandler(socks, u, k) EXCEPT ![k].st = "CLOSED"]
               /\ wsConnections' = [wsConnections EXCEPT ![u] = 0]
               /\ messageHandlers' = [messageHandlers EXCEPT ![u] = 0]
               /\ reqs' = SettleEach(reqs, pendingRequests, "rejClosed")
               /\ pendingRequests' = {}
    /\ UNCHANGED <<serverless, requestId>>
    /\ UNCHANGED otherThanServer

\* the 10 s connectionTimeout of connect() fires
SrvConnTimeout(k) ==
    /\ k \in DOMAIN socks
    /\ socks[k].connTimer
    /\ LET u == socks[k].url
           o == socks[k].owner
       IN IF socks[k].st # "OPEN"
          THEN /\ socks' = [CloseSock(socks, k) EXCEPT ![k].connTimer = FALSE]
               /\ wsConnections' = [wsConnections EXCEPT ![u] = 0]
               /\ IF o \in pendingRequests
                  THEN /\ pendingRequests' = pendingRequests \ {o}
                       /\ reqs' = SettleReq(reqs, o, "rejTimeout", NoRes)
                  ELSE UNCHANGED <<pendingRequests, reqs>>
          ELSE /\ socks' = [socks EXCEPT ![k].connTimer = FALSE]
               /\ UNCHANGED <<wsConnections, pendingRequests, reqs>>
    /\ UNCHANGED <<serverless, requestId, messageHandlers>>
    /\ UNCHANGED otherThanServer

\* the request timer of call r fires (15 s with reuse, 10 s one-time)
SrvTimeout(r) ==
    /\ r \in DOMAIN reqs
    /\ reqs[r].timer
    /\ IF serverless
       THEN /\ reqs' = Settle(ClearTimer(reqs, r), r, "rejTimeout", NoRes)
            /\ UNCHANGED <<pendingRequests, wsConnections, messageHandlers,
                           socks>>
       ELSE IF r \in pendingRequests
       THEN LET u == reqs[r].url
                w == wsConnections[u]
            IN /\ pendingRequests' = pendingRequests \ {r}
               /\ reqs' = SettleReq(reqs, r, "rejTimeout", NoRes)
               /\ IF w # 0 /\ socks[w].st # "OPEN"
                  THEN /\ wsConnections' = [wsConnections EXCEPT ![u] = 0]
                       /\ socks' = RemoveHandler(socks, u, w)
                       /\ messageHandlers' = [messageHandlers EXCEPT ![u] = 0]
                  ELSE UNCHANGED <<wsConnections, socks, messageHandlers>>
       ELSE /\ reqs' = ClearTimer(reqs, r)
            /\ UNCHANGED <<pendingRequests, wsConnections, messageHandlers,
                           socks>>
    /\ UNCHANGED <<serverless, requestId>>
    /\ UNCHANGED otherThanServer

\* 'message' event on the open socket k carrying m: the handler attached to
\* the socket, if any, runs
SrvOnMessage(k, m) ==
    /\ k \in DOMAIN socks
    /\ socks[k].st = "OPEN"
    /\ socks[k].handler
    /\ LET st == IF m.error THEN "rejError" ELSE "resolved"
       IN IF serverless
          THEN /\ m.id = socks[k].owner
               /\ socks' = Cleanup(socks, k)
               /\ reqs' = Settle(ClearTimer(reqs, m.id), m.id, st, m.result)
               /\ UNCHANGED pendingRequests
          ELSE /\ m.id # 0
               /\ m.id \in pendingRequests
               /\ pendingRequests' = pendingRequests \ {m.id}
               /\ reqs' = SettleReq(reqs, m.id, st, m.result)
               /\ UNCHANGED socks
    /\ UNCHANGED <<serverless, requestId, wsConnections, messageHandlers>>
    /\ UNCHANGED otherThanServer

NextServer ==
    \/ \E u \in Urls : CallOneTime(u)
    \/ \E u \in Urls : CallReuse(u)
    \/ \E k \in 1..MaxReqs : SrvOpen(k)
    \/ \E k \in 1..MaxReqs : SrvError(k)
    \/ \E k \in 1..MaxReqs : SrvClose(k)
    \/ \E k \in 1..MaxReqs : SrvConnTimeout(k)
    \/ \E r \in 1..MaxReqs : SrvTimeout(r)
    \/ \E k \in 1..MaxReqs, m \in SrvMessages : SrvOnMessage(k, m)

SpecServer ==
    ServerInit /\ [][NextServer]_vars

\* timers fire, queued events are dispatched and closing sockets finish
\* closing; nothing is assumed about what the peer does
FairSpecServer ==
    /\ SpecServer
    /\ \A r \in 1..MaxReqs : WF_vars(SrvTimeout(r))
    /\ \A k \in 1..MaxReqs :
          /\ WF_vars(SrvConnTimeout(k))
          /\ WF_vars(SrvClose(k) /\ socks[k].st = "CLOSING")

(***************************************************************************)
(* Claims about ElectrumServerClient.                                      *)
(***************************************************************************)
\* C2: every call settles exactly once: no call stays pending forever (not
\* even when the peer closes the socket without answering), and a settled
\* call never changes its outcome.
C2_SettlesOnce ==
    /\ \A r \in 1..MaxReqs :
          (r \in DOMAIN reqs /\ reqs[r].st = "pending")
              ~> (r \in DOMAIN reqs /\ reqs[r].st # "pending")
    /\ [][\A r \in DOMAIN reqs :
             reqs[r].st # "pending" =>
                 /\ reqs'[r].st = reqs[r].st
                 /\ reqs'[r].res = reqs[r].res]_vars

\* C6: with connection reuse, a server URL never has more than one
\* connection that is opening or open.
C6_OneLiveConnection ==
    ~serverless =>
        \A u \in Urls :
            Cardinality({k \in DOMAIN socks :
                            /\ socks[k].url = u
                            /\ socks[k].st \in {"CONNECTING", "OPEN"}}) <= 1

(***************************************************************************)
(*          WalletProvider.connect and its liveness check                  *)
(*  The wallet is unlocked and ready throughout (walletRef, scripthashRef  *)
(*  set, isLocked false), so the guards at the top of connect pass.        *)
(***************************************************************************)
Servers == 0..(NServers - 1)

\* const startIndex = tryNextServer ? (currentServerIndex + 1) % n
\*                                  : currentServerIndex
StartIndex(capt, tryNextServer) ==
    IF tryNextServer THEN (capt + 1) % NServers ELSE capt

\* const serverIndex = (startIndex + i) % serversToTry.length
ServerIndex(start, i) == (start + i) % NServers

\* the lowest free client slot
FreeSlot(cl) ==
    CHOOSE k \in 1..MaxClients :
        ~cl[k].used /\ \A j \in 1..(k - 1) : cl[j].used

\* a client nothing refers to any more (not electrumRef, no running health
\* check, not held by a running connect, getUtxos or send) is garbage
Collect(cl, eref, procs) ==
    [k \in 1..MaxClients |->
        IF /\ cl[k].used
           /\ \/ k = eref
              \/ cl[k].interval
              \/ \E p \in DOMAIN procs : procs[p].cli = k
              \/ \E c \in DOMAIN spends : spends[c].cli = k
        THEN cl[k] ELSE NoClient]

RemoveAt(s, p) == SubSeq(s, 1, p - 1) \o SubSeq(s, p + 1, Len(s))

NewProc(capt, tryNextServer) ==
    [capt |-> capt, start |-> StartIndex(capt, tryNextServer), i |-> 0,
     phase |-> "handshake", auto |-> tryNextServer, cli |-> 0]

\* connect() called by the auto-connect effect or by the server settings
\* view; it runs up to the first await of the first attempt
WConnect ==
    /\ connects < MaxConnects
    /\ Len(wProcs) < MaxProcs
    /\ connects' = connects + 1
    /\ wStatus' = "connecting"
    /\ wError' = "none"
    /\ wProcs' = Append(wProcs, NewProc(currentServerIndex, FALSE))
    /\ UNCHANGED <<currentServerIndex, electrumRef, wClients, isReconnecting,
                   reconnectTimer, wDead, wLog>>
    /\ UNCHANGED otherThanWallet

\* the attempt of connect invocation p on its current server failed: the
\* loop goes on with the next server, or connect gives up after the last
\* one (for the reconnect timer's call, its catch and finally run too)
LoopOn(p, cl) ==
    IF wProcs[p].i + 1 < NServers
    THEN /\ wProcs' = [wProcs EXCEPT ![p].i = @ + 1,
                                     ![p].phase = "handshake",
                                     ![p].cli = 0]
         /\ wClients' = Collect(cl, electrumRef, wProcs')
         /\ wLog' = IF wProcs[p].auto
                    THEN Append(wLog, ServerIndex(wProcs[p].start,
                                                  wProcs[p].i + 1))
                    ELSE wLog
         /\ UNCHANGED <<wStatus, wError, isReconnecting>>
    ELSE /\ wProcs' = RemoveAt(wProcs, p)
         /\ wClients' = Collect(cl, electrumRef, wProcs')
         /\ wStatus' = "error"
         /\ wError' = IF wProcs[p].auto THEN "allUnavailable"
                      ELSE "connectFailed"
         /\ isReconnecting' = IF wProcs[p].auto THEN FALSE ELSE isReconnecting
         /\ UNCHANGED wLog

\* client.connect, serverVersion, relayFee or estimateFee of the attempt
\* fails or times out: catch -> client.disconnect(), next server
WAttemptFail(p) ==
    /\ p \in DOMAIN wProcs
    /\ wProcs[p].phase = "handshake"
    /\ LoopOn(p, wClients)
    /\ UNCHANGED <<currentServerIndex, electrumRef, reconnectTimer, connects,
                   wDead>>
    /\ UNCHANGED otherThanWallet

\* the handshake of the attempt succeeds: the old client is disconnected,
\* the new one becomes electrumRef.current, status 'ready'; connect then
\* awaits refresh and subscribeScripthash
WAttemptOk(p) ==
    /\ p \in DOMAIN wProcs
    /\ wProcs[p].phase = "handshake"
    /\ LET s == ServerIndex(wProcs[p].start, wProcs[p].i)
           old == IF electrumRef # 0
                  THEN [wClients EXCEPT ![electrumRef].connected = FALSE]
                  ELSE wClients
           k == FreeSlot(Collect(old, 0, wProcs))
       IN /\ electrumRef' = k
          /\ wProcs' = [wProcs EXCEPT ![p].phase = "subscribe", ![p].cli = k]
          /\ wClients' = Collect(
                 [Collect(old, 0, wProcs) EXCEPT
                     ![k] = [used |-> TRUE, server |-> s, connected |-> TRUE,
                             interval |-> FALSE, capt |-> wProcs[p].capt]],
                 k, wProcs')
          /\ currentServerIndex' = s
    /\ wStatus' = "ready"
    /\ wError' = "none"
    /\ UNCHANGED <<isReconnecting, reconnectTimer, connects, wDead, wLog>>
    /\ UNCHANGED otherThanWallet

\* refresh and subscribeScripthash succeed: the health check interval of
\* the new client starts and connect returns
WSubscribeOk(p) ==
    /\ p \in DOMAIN wProcs
    /\ wProcs[p].phase = "subscribe"
    /\ wClients[wProcs[p].cli].connected
    /\ wProcs' = RemoveAt(wProcs, p)
    /\ wClients' = Collect([wClients EXCEPT ![wProcs[p].cli].interval = TRUE],
                           electrumRef, wProcs')
    /\ isReconnecting' = IF wProcs[p].auto THEN FALSE ELSE isReconnecting
    /\ UNCHANGED <<wStatus, wError, currentServerIndex, electrumRef,
                   reconnectTimer, connects, wDead, wLog>>
    /\ UNCHANGED otherThanWallet

\* refresh or subscribeScripthash fails: catch -> client.disconnect(), next
\* server (electrumRef.current still holds the client)
WSubscribeFail(p) ==
    /\ p \in DOMAIN wProcs
    /\ wProcs[p].phase = "subscribe"
    /\ LoopOn(p, [wClients EXCEPT ![wProcs[p].cli].connected = FALSE])
    /\ UNCHANGED <<currentServerIndex, electrumRef, reconnectTimer, connects,
                   wDead>>
    /\ UNCHANGED otherThanWallet

\* the connection of client k dies (the peer or the network closes it)
WClientDies(k) ==
    /\ wClients[k].used
    /\ wClients[k].connected
    /\ wClients' = [wClients EXCEPT ![k].connected = FALSE]
    /\ UNCHANGED <<wStatus, wError, currentServerIndex, electrumRef,
                   isReconnecting, reconnectTimer, wProcs, connects, wDead,
                   wLog>>
    /\ UNCHANGED otherThanWallet

\* a tick of the 5 s health check of client k that finds the client dead
\* while no reconnection is under way (any other tick does nothing)
WHealthCheck(k) ==
    /\ wClients[k].used
    /\ wClients[k].interval
    /\ ~wClients[k].connected
    /\ ~isReconnecting
    /\ isReconnecting' = TRUE
    /\ wStatus' = "connecting"
    /\ reconnectTimer' = wClients[k].capt
    /\ wClients' = Collect([wClients EXCEPT ![k].interval = FALSE],
                           electrumRef, wProcs)
    /\ wDead' = wClients[k].server
    /\ wLog' = <<>>
    /\ UNCHANGED <<wError, currentServerIndex, electrumRef, wProcs, connects>>
    /\ UNCHANGED otherThanWallet

\* the 2 s reconnect timer fires: connect(true) of the closure that set up
\* the health check runs up to the first await of its first attempt
WReconnect ==
    /\ reconnectTimer # NoTimer
    /\ reconnectTimer' = NoTimer
    /\ wStatus' = "connecting"
    /\ wError' = "none"
    /\ wProcs' = Append(wProcs, NewProc(reconnectTimer, TRUE))
    /\ wLog' = <<StartIndex(reconnectTimer, TRUE)>>
    /\ UNCHANGED <<currentServerIndex, electrumRef, wClients, isReconnecting,
                   connects, wDead>>
    /\ UNCHANGED otherThanWallet

NextWallet ==
    \/ WConnect
    \/ \E p \in 1..(MaxProcs + 1) : WAttemptFail(p)
    \/ \E p \in 1..(MaxProcs + 1) : WAttemptOk(p)
    \/ \E p \in 1..(MaxProcs + 1) : WSubscribeOk(p)
    \/ \E p \in 1..(MaxProcs + 1) : WSubscribeFail(p)
    \/ \E k \in 1..MaxClients : WClientDies(k)
    \/ \E k \in 1..MaxClients : WHealthCheck(k)
    \/ WReconnect

InitWallet ==
    ClientInit /\ ServerIdle /\ ExplorerStart /\ LockStart /\ SessionStart /\ TxIdle /\ ParseIdle /\ WalletStart
      /\ DifficultyIdle /\ FetchIdle /\ FindIdle /\ ReuseIdle /\ VersionIdle /\ RateIdle /\ FlowIdle /\ RouteIdle /\ SpendIdle

SpecWallet == InitWallet /\ [][NextWallet]_vars

(***************************************************************************)
(* Claims about the wallet's reconnection.                                 *)
(***************************************************************************)
\* C7: when the liveness check finds the connection to server i dead, the
\* reconnection sequence attempts the servers i+1, i+2, ... modulo n, the
\* failed server last.
C7_RoundRobinFromFailed ==
    \A j \in 1..Len(wLog) : wLog[j] = (wDead + j) % NServers

\* C8: an automatic reconnection tries each server at most once, and once it
\* has ended with all servers failed (status error) no automatic reconnection
\* starts until connect is called explicitly.
C8_NoRetryAfterExhaustion ==
    /\ [](/\ Len(wLog) <= NServers
          /\ \A a, b \in 1..Len(wLog) : wLog[a] = wLog[b] => a = b)
    /\ [][(wStatus = "error" /\ wError = "allUnavailable")
             => ~(isReconnecting' /\ ~isReconnecting)]_vars

(***************************************************************************)
(*                        useElectrumExplorer                              *)
(***************************************************************************)
\* clientRef.current.disconnect(); clientRef.current = null
DropClientRef(cl) ==
    IF clientRef # 0 THEN [cl EXCEPT ![clientRef].connected = FALSE] ELSE cl

\* connect(tryNextServer) up to the first await of its first attempt, when
\* isReconnectingRef.current does not make it return at once; its servers
\* are those getServers() of its render returns
EStart(tryNextServer) ==
    /\ eConnecting' = TRUE
    /\ eError' = "none"
    /\ eClients' = DropClientRef(eClients)
    /\ clientRef' = 0
    /\ eProcs' = Append(eProcs,
                        [start |-> StartIndex(currentServerIndexRef,
                                              tryNextServer),
                         i |-> 0, auto |-> tryNextServer,
                         net |-> network])

\* connect(false) called by the mount effect, the network effect or call()
EConnect ==
    /\ eConnects < MaxConnects
    /\ Len(eProcs) < MaxProcs
    /\ eConnects' = eConnects + 1
    /\ IF eIsReconnecting
       THEN UNCHANGED <<eConnecting, eError, eClients, clientRef, eProcs>>
       ELSE EStart(FALSE)
    /\ UNCHANGED <<eConnected, eIsReconnecting, eTimer, currentServerIndexRef>>
    /\ UNCHANGED network
    /\ UNCHANGED otherThanExplorer

\* reconnect(): drop the current client, then connect(false)
EReconnect ==
    /\ eConnects < MaxConnects
    /\ Len(eProcs) < MaxProcs
    /\ eConnects' = eConnects + 1
    /\ eConnected' = FALSE
    /\ clientRef' = 0
    /\ IF eIsReconnecting
       THEN /\ eError' = "none"
            /\ eClients' = DropClientRef(eClients)
            /\ UNCHANGED <<eConnecting, eProcs>>
       ELSE EStart(FALSE)
    /\ UNCHANGED <<eIsReconnecting, eTimer, currentServerIndexRef>>
    /\ UNCHANGED network
    /\ UNCHANGED otherThanExplorer

\* the attempt of connect invocation p fails or times out: the next
\* iteration drops clientRef.current and tries the next server; after the
\* last server connect reports the error and returns
EAttemptFail(p) ==
    /\ p \in DOMAIN eProcs
    /\ IF eProcs[p].i + 1 < NServers
       THEN /\ eProcs' = [eProcs EXCEPT ![p].i = @ + 1]
            /\ eClients' = DropClientRef(eClients)
            /\ clientRef' = 0
            /\ UNCHANGED <<eConnected, eConnecting, eError, eIsReconnecting>>
       ELSE /\ eProcs' = RemoveAt(eProcs, p)
            /\ eError' = "failed"
            /\ eConnected' = FALSE
            /\ eConnecting' = FALSE
            /\ eIsReconnecting' = IF eProcs[p].auto THEN FALSE
                                  ELSE eIsReconnecting
            /\ UNCHANGED <<eClients, clientRef>>
    /\ UNCHANGED <<eTimer, currentServerIndexRef, eConnects>>
    /\ UNCHANGED network
    /\ UNCHANGED otherThanExplorer

\* the attempt of connect invocation p succeeds: the client becomes
\* clientRef.current, its health check starts and connect returns
EAttemptOk(p) ==
    /\ p \in DOMAIN eProcs
    /\ LET s == ServerIndex(eProcs[p].start, eProcs[p].i)
       IN /\ eClients' = Append(eClients, [server |-> s, connected |-> TRUE,
                                           interval |-> TRUE,
                                           net |-> eProcs[p].net])
          /\ currentServerIndexRef' = s
    /\ clientRef' = Len(eClients) + 1
    /\ eConnected' = TRUE
    /\ eConnecting' = FALSE
    /\ eError' = "none"
    /\ eProcs' = RemoveAt(eProcs, p)
    /\ eIsReconnecting' = IF eProcs[p].auto THEN FALSE ELSE eIsReconnecting
    /\ UNCHANGED <<eTimer, eConnects>>
    /\ UNCHANGED network
    /\ UNCHANGED otherThanExplorer

\* the connection of client k dies
EClientDies(k) ==
    /\ k \in DOMAIN eClients
    /\ eClients[k].connected
    /\ eClients' = [eClients EXCEPT ![k].connected = FALSE]
    /\ UNCHANGED <<eConnected, eConnecting, eError, clientRef,
                   eIsReconnecting, eTimer, currentServerIndexRef, eProcs,
                   eConnects>>
    /\ UNCHANGED network
    /\ UNCHANGED otherThanExplorer

\* a tick of the 5 s health check of client k that finds the client dead
\* while no reconnection is under way (any other tick does nothing)
EHealthCheck(k) ==
    /\ k \in DOMAIN eClients
    /\ eClients[k].interval
    /\ ~eClients[k].connected
    /\ ~eIsReconnecting
    /\ eClients' = [eClients EXCEPT ![k].interval = FALSE]
    /\ eIsReconnecting' = TRUE
    /\ eConnected' = FALSE
    /\ eConnecting' = TRUE
    /\ eTimer' = TRUE
    /\ UNCHANGED <<eError, clientRef, currentServerIndexRef, eProcs,
                   eConnects>>
    /\ UNCHANGED network
    /\ UNCHANGED otherThanExplorer

\* the 2 s reconnect timer fires: await connect(true), then the finally
\* block; connect(true) returns at once while isReconnectingRef.current
EReconnectTimer ==
    /\ eTimer
    /\ eTimer' = FALSE
    /\ IF eIsReconnecting
       THEN /\ eIsReconnecting' = FALSE
            /\ UNCHANGED <<eConnecting, eError, eClients, clientRef, eProcs>>
       ELSE /\ EStart(TRUE)
            /\ UNCHANGED eIsReconnecting
    /\ UNCHANGED <<eConnected, currentServerIndexRef, eConnects>>
    /\ UNCHANGED network
    /\ UNCHANGED otherThanExplorer

\* useElectrumStatus
ExplorerStatus ==
    IF eConnected THEN "ready"
    ELSE IF eConnecting THEN "connecting"
    ELSE IF eError # "none" THEN "error"
    ELSE "disconnected"

NextExplorer ==
    \/ EConnect
    \/ EReconnect
    \/ \E p \in 1..MaxProcs : EAttemptFail(p)
    \/ \E p \in 1..MaxProcs : EAttemptOk(p)
    \/ \E k \in 1..MaxConnects : EClientDies(k)
    \/ \E k \in 1..MaxConnects : EHealthCheck(k)
    \/ EReconnectTimer

InitExplorer ==
    ClientInit /\ ServerIdle /\ WalletStart /\ LockStart /\ SessionStart /\ TxIdle /\ ParseIdle /\ ExplorerStart
      /\ DifficultyIdle /\ FetchIdle /\ FindIdle /\ ReuseIdle /\ VersionIdle /\ RateIdle /\ FlowIdle /\ RouteIdle /\ SpendIdle

SpecExplorer == InitExplorer /\ [][NextExplorer]_vars

\* timers fire and every connection attempt ends (it succeeds, fails or
\* times out); nothing is assumed about what the page's user does
FairSpecExplorer ==
    /\ SpecExplorer
    /\ WF_vars(EReconnectTimer)
    /\ \A k \in 1..MaxConnects : WF_vars(EHealthCheck(k))
    /\ \A p \in 1..MaxProcs : WF_vars(EAttemptFail(p) \/ EAttemptOk(p))

(***************************************************************************)
(* Claims about the explorer's connection status.                          *)
(***************************************************************************)
\* C9: whenever the connection status becomes 'connecting' it eventually
\* becomes 'ready' or 'error'; it never stays 'connecting' forever.
C9_ConnectingEnds ==
    (ExplorerStatus = "connecting") ~> (ExplorerStatus \in {"ready", "error"})

(***************************************************************************)
(*          WalletProvider.unlockWallet and the unlock lockout             *)
(*  Time is counted in minutes.  A wallet has been created, so the         *)
(*  encrypted data and the password hash are in sessionStorage.            *)
(***************************************************************************)
\* lockoutUntil && Date.now() < lockoutUntil
LockedOut == lockoutUntil # 0 /\ now < lockoutUntil

\* unlockWallet(password) up to its first await: thrown out during a
\* lockout, otherwise verifyPassword starts; the closure holds the
\* unlockAttempts of the render that created it
UnlockStart(correct) ==
    /\ isLocked
    /\ Len(unlocks) < MaxInFlight
    /\ IF LockedOut
       THEN /\ unlockResult' = "lockedOut"
            /\ UNCHANGED unlocks
       ELSE /\ unlocks' = Append(unlocks, [attempts |-> unlockAttempts,
                                           correct |-> correct])
            /\ unlockResult' = "none"
    /\ UNCHANGED <<unlockAttempts, lockoutUntil, ssAttempts, ssLockout, now,
                   isLocked>>
    /\ UNCHANGED otherThanLock

\* const newAttempts = unlockAttempts + 1
NewAttempts(captured) == captured + 1

\* setUnlockAttempts(0); sessionStorage.removeItem(UNLOCK_ATTEMPTS_KEY)
AttemptsAfterUnlockKept(before) == before
AttemptsAfterUnlock(before) == 0

\* verifyPassword of the call in flight at position j returns and
\* unlockWallet runs to its end
UnlockFinish(j) ==
    /\ j \in DOMAIN unlocks
    /\ unlocks' = RemoveAt(unlocks, j)
    /\ IF unlocks[j].correct
       THEN /\ unlockAttempts' = AttemptsAfterUnlock(unlockAttempts)
            /\ lockoutUntil' = 0
            /\ ssAttempts' = AttemptsAfterUnlock(ssAttempts)
            /\ ssLockout' = 0
            /\ isLocked' = FALSE
            /\ unlockResult' = "unlocked"
       ELSE LET newAttempts == NewAttempts(unlocks[j].attempts) IN
            /\ unlockAttempts' = newAttempts
            /\ ssAttempts' = newAttempts
            /\ IF newAttempts >= MAX_UNLOCK_ATTEMPTS
               THEN /\ lockoutUntil' = now + LOCKOUT_DURATION
                    /\ ssLockout' = now + LOCKOUT_DURATION
               ELSE UNCHANGED <<lockoutUntil, ssLockout>>
            /\ unlockResult' = "invalid"
            /\ UNCHANGED isLocked
    /\ UNCHANGED now
    /\ UNCHANGED otherThanLock

\* lockWallet()
LockWallet ==
    /\ ~isLocked
    /\ isLocked' = TRUE
    /\ unlockResult' = "none"
    /\ UNCHANGED <<unlockAttempts, lockoutUntil, ssAttempts, ssLockout, now,
                   unlocks>>
    /\ UNCHANGED otherThanLock

\* the page is reloaded: the calls in flight are gone, the state starts
\* afresh and the mount effect restores it from sessionStorage
Reload ==
    /\ unlocks' = <<>>
    /\ isLocked' = TRUE
    /\ unlockResult' = "none"
    /\ IF ssLockout # 0
       THEN IF now < ssLockout
            THEN /\ unlockAttempts' = ssAttempts
                 /\ lockoutUntil' = ssLockout
                 /\ UNCHANGED <<ssAttempts, ssLockout>>
            ELSE /\ unlockAttempts' = 0
                 /\ lockoutUntil' = 0
                 /\ ssAttempts' = 0
                 /\ ssLockout' = 0
       ELSE /\ unlockAttempts' = ssAttempts
            /\ lockoutUntil' = 0
            /\ UNCHANGED <<ssAttempts, ssLockout>>
    /\ UNCHANGED now
    /\ UNCHANGED otherThanLock

\* a minute passes
Tick ==
    /\ now < MaxTime
    /\ now' = now + 1
    /\ unlockResult' = "none"
    /\ UNCHANGED <<unlockAttempts, lockoutUntil, ssAttempts, ssLockout,
                   unlocks, isLocked>>
    /\ UNCHANGED otherThanLock

NextLock ==
    \/ \E correct \in BOOLEAN : UnlockStart(correct)
    \/ \E j \in 1..MaxInFlight : UnlockFinish(j)
    \/ LockWallet
    \/ Reload
    \/ Tick

InitLock ==
    ClientInit /\ ServerIdle /\ WalletStart /\ ExplorerStart /\ LockStart /\ SessionStart /\ TxIdle /\ ParseIdle
      /\ DifficultyIdle /\ FetchIdle /\ FindIdle /\ ReuseIdle /\ VersionIdle /\ RateIdle /\ FlowIdle /\ RouteIdle /\ SpendIdle

SpecLock == InitLock /\ [][NextLock]_vars

(***************************************************************************)
(* Claims about the unlock lockout.                                        *)
(***************************************************************************)
\* C10: each failed unlock attempt increments the failed-attempt counter by
\* one; when the counter reaches 5 the wallet is locked out until 15 minutes
\* later; an unlock attempt made during the lockout is rejected without
\* verifying the password.
C10_LockoutAfterFive ==
    /\ [][unlockResult' = "invalid" =>
             /\ unlockAttempts' = unlockAttempts + 1
             /\ unlockAttempts' >= MAX_UNLOCK_ATTEMPTS =>
                    lockoutUntil' = now + LOCKOUT_DURATION]_vars
    /\ [][LockedOut => Len(unlocks') <= Len(unlocks)]_vars


\* the lockout window has passed
LockoutExpired == lockoutUntil # 0 /\ now >= lockoutUntil

\* C11: once the lockout window has expired the attempt counter is back at
\* zero: a failed unlock made after the expiry (a single call, not
\* overlapping another) leaves the wallet locked but not locked out.
C11_AttemptsResetAfterExpiry ==
    [][(/\ LockoutExpired
        /\ Len(unlocks) = 1
        /\ unlocks[1].attempts = unlockAttempts
        /\ unlockResult' = "invalid")
          => ~(lockoutUntil' # 0 /\ now' < lockoutUntil')]_vars


\* C12: a successful unlock sets the attempt counter to zero and clears the
\* lockout, in memory and in session storage, whatever they were before.
C12_UnlockResets ==
    [][unlockResult' = "unlocked" =>
          /\ unlockAttempts' = 0
          /\ lockoutUntil' = 0
          /\ ssAttempts' = 0
          /\ ssLockout' = 0]_vars

\* a successful unlock has just reset a counter that was not zero: a failed
\* call that captured the earlier counter is still in flight
C12_Witness ==
    /\ unlockResult = "unlocked"
    /\ ~isLocked
    /\ unlockAttempts = 0
    /\ ssAttempts = 0
    /\ \E j \in DOMAIN unlocks : unlocks[j].attempts > 0


(***************************************************************************)
(* The wallet session: WalletProvider's lock, session timeout and          *)
(* wallet initialisation (src/context/WalletContext.tsx) and the           *)
(* IdleWatcher that wraps the application (src/unnamed/part_002 with       *)
(* src/unnamed/part_011).  Time is counted in minutes.  A timer that is    *)
(* due fires before the clock moves on.                                    *)
(***************************************************************************)

\* the stages in which the overlay shows an existing wallet
Views == {"ready", "send", "receive", "mnemonic-view", "private-key-view"}

\* stage === 'ready' || stage === 'created'
LockableStage(s) == s \in {"ready", "created"}

\* useIdleTimeout's reset(): the effect runs again on every render of
\* IdleWatcher, whose onExpire closure captures isOpen
ArmIdle(open) == [at |-> sNow + SESSION_TIMEOUT_MS, open |-> open]

\* updateActivity of the render that captured isLocked = capLocked and
\* stage = capStage
UpdateActivity(capLocked, capStage) ==
    IF ~capLocked
      THEN /\ lastActivity' = sNow
           /\ activityTimeoutRef' = [at |-> sNow + SESSION_TIMEOUT_MS,
                                     locked |-> capLocked,
                                     stage |-> capStage]
      ELSE UNCHANGED <<lastActivity, activityTimeoutRef>>

\* lockWallet(), but for the activity timer
ClearSecrets ==
    /\ walletRef' = FALSE
    /\ mnemonicRef' = FALSE
    /\ sIsLocked' = TRUE

\* getMnemonic(): TRUE when it returns the secret
getMnemonic == IF sIsLocked THEN FALSE ELSE mnemonicRef

\* getCurrentPrivateKey(): TRUE when it returns the key
getCurrentPrivateKey == IF sIsLocked \/ ~walletRef THEN FALSE ELSE TRUE

\* timeSinceActivity > SESSION_TIMEOUT_MS as checkSessionTimeout sees it:
\* it runs every second, so it sees the timeout exceeded within the minute
\* in which the timeout is reached
SessionTimedOut == sNow - lastActivity >= SESSION_TIMEOUT_MS

\* one more user event
UserEvent ==
    /\ sInputs < MaxInputs
    /\ sInputs' = sInputs + 1

\* a timer or the session check is due
TimerDue ==
    \/ activityTimeoutRef.at # NoTimer /\ activityTimeoutRef.at <= sNow
    \/ idleTimer.at # NoTimer /\ idleTimer.at <= sNow
    \/ /\ lastActivity # NoTimer
       /\ SessionTimedOut
       /\ ~sIsLocked
       /\ LockableStage(stage)

\* mousedown, scroll or touchstart: handleActivity of the wallet only
TrackedActivity ==
    /\ UserEvent
    /\ ~sIsLocked
    /\ UpdateActivity(sIsLocked, stage)
    /\ UNCHANGED <<stage, sIsLocked, walletRef, mnemonicRef, ssEncryptedData,
                   ssPasswordHash, idleTimer, isOpen, sNow, sOps>>
    /\ UNCHANGED otherThanSession

\* keydown: both the wallet's handleActivity and useIdleTimeout's reset
KeyDown ==
    /\ UserEvent
    /\ UpdateActivity(sIsLocked, stage)
    /\ idleTimer' = ArmIdle(isOpen)
    /\ UNCHANGED <<stage, sIsLocked, walletRef, mnemonicRef, ssEncryptedData,
                   ssPasswordHash, isOpen, sNow, sOps>>
    /\ UNCHANGED otherThanSession

\* mousemove: useIdleTimeout's reset only
MouseMove ==
    /\ UserEvent
    /\ idleTimer' = ArmIdle(isOpen)
    /\ UNCHANGED <<stage, sIsLocked, walletRef, mnemonicRef, ssEncryptedData,
                   ssPasswordHash, lastActivity, activityTimeoutRef, isOpen,
                   sNow, sOps>>
    /\ UNCHANGED otherThanSession

\* a button of the overlay is pressed (mousedown, then click) and calls
\* setStage(s): the dashboard opens a view, a view goes back to it
SetStage(s) ==
    /\ UserEvent
    /\ isOpen
    /\ s \in Views /\ s # stage
    /\ \/ stage = "ready" /\ ~sIsLocked
       \/ stage \in Views /\ s = "ready"
    /\ UpdateActivity(sIsLocked, stage)
    /\ stage' = s
    /\ idleTimer' = ArmIdle(isOpen)
    /\ UNCHANGED <<sIsLocked, walletRef, mnemonicRef, ssEncryptedData,
                   ssPasswordHash, isOpen, sNow, sOps>>
    /\ UNCHANGED otherThanSession

\* the overlay is opened or closed (mousedown, then click)
ToggleOverlay ==
    /\ UserEvent
    /\ UpdateActivity(sIsLocked, stage)
    /\ isOpen' = ~isOpen
    /\ idleTimer' = ArmIdle(~isOpen)
    /\ UNCHANGED <<stage, sIsLocked, walletRef, mnemonicRef, ssEncryptedData,
                   ssPasswordHash, sNow, sOps>>
    /\ UNCHANGED otherThanSession

\* the dashboard's lock button: onClick={lockWallet}
LockButton ==
    /\ UserEvent
    /\ isOpen /\ stage = "ready" /\ ~sIsLocked
    /\ ClearSecrets
    /\ lastActivity' = sNow
    /\ activityTimeoutRef' = NoTimeout
    /\ idleTimer' = ArmIdle(isOpen)
    /\ UNCHANGED <<stage, ssEncryptedData, ssPasswordHash, isOpen, sNow, sOps>>
    /\ UNCHANGED otherThanSession

\* MnemonicDisplay's confirm button: confirmMnemonic() -> initWallet(),
\* up to its first await
InitWalletStart ==
    /\ UserEvent
    /\ isOpen /\ stage = "mnemonic-display"
    /\ Len(sOps) < MaxOps
    /\ sOps' = Append(sOps, [op |-> "init", pc |-> "derive",
                             locked |-> sIsLocked, stage |-> stage])
    /\ UpdateActivity(sIsLocked, stage)
    /\ UNCHANGED <<stage, sIsLocked, walletRef, mnemonicRef, ssEncryptedData,
                   ssPasswordHash, idleTimer, isOpen, sNow>>
    /\ UNCHANGED otherThanSession

\* initWallet after await mnemonicToWallet, up to await encryptWithPassword
InitWalletDerived(j) ==
    /\ j \in DOMAIN sOps
    /\ sOps[j].op = "init" /\ sOps[j].pc = "derive"
    /\ walletRef' = TRUE
    /\ sOps' = [sOps EXCEPT ![j].pc = "encrypt"]
    /\ UNCHANGED <<stage, sIsLocked, mnemonicRef, ssEncryptedData,
                   ssPasswordHash, lastActivity, activityTimeoutRef,
                   idleTimer, isOpen, sNow, sInputs>>
    /\ UNCHANGED otherThanSession

\* initWallet after await encryptWithPassword and await hashPassword
InitWalletFinish(j) ==
    /\ j \in DOMAIN sOps
    /\ sOps[j].op = "init" /\ sOps[j].pc = "encrypt"
    /\ ssEncryptedData' = TRUE
    /\ ssPasswordHash' = TRUE
    /\ mnemonicRef' = TRUE
    /\ stage' = "ready"
    /\ sIsLocked' = FALSE
    /\ IF ~sOps[j].locked
         THEN UpdateActivity(sOps[j].locked, sOps[j].stage)
         ELSE /\ lastActivity' = sNow
              /\ UNCHANGED activityTimeoutRef
    /\ idleTimer' = ArmIdle(isOpen)
    /\ sOps' = RemoveAt(sOps, j)
    /\ UNCHANGED <<walletRef, isOpen, sNow, sInputs>>
    /\ UNCHANGED otherThanSession

\* PasswordLock (locked dashboard), SendView and MnemonicView (password
\* confirmation) call unlockWallet(password) with the right password:
\* up to await verifyPassword
SUnlockStart ==
    /\ UserEvent
    /\ isOpen
    /\ \/ sIsLocked /\ stage = "ready"
       \/ ~sIsLocked /\ stage \in {"send", "mnemonic-view"}
    /\ ssEncryptedData /\ ssPasswordHash
    /\ Len(sOps) < MaxOps
    /\ sOps' = Append(sOps, [op |-> "unlock", pc |-> "verify",
                             locked |-> sIsLocked, stage |-> stage])
    /\ UpdateActivity(sIsLocked, stage)
    /\ idleTimer' = ArmIdle(isOpen)
    /\ UNCHANGED <<stage, sIsLocked, walletRef, mnemonicRef, ssEncryptedData,
                   ssPasswordHash, isOpen, sNow>>
    /\ UNCHANGED otherThanSession

\* unlockWallet after verifyPassword, decryptWithPassword and
\* mnemonicToWallet: the three awaits change nothing of the session
SUnlockFinish(j) ==
    /\ j \in DOMAIN sOps
    /\ sOps[j].op = "unlock"
    /\ mnemonicRef' = TRUE
    /\ walletRef' = TRUE
    /\ sIsLocked' = FALSE
    /\ UpdateActivity(sOps[j].locked, sOps[j].stage)
    /\ idleTimer' = ArmIdle(isOpen)
    /\ sOps' = RemoveAt(sOps, j)
    /\ UNCHANGED <<stage, ssEncryptedData, ssPasswordHash, isOpen, sNow,
                   sInputs>>
    /\ UNCHANGED otherThanSession

\* a minute passes
STick ==
    /\ sNow < MaxSessionTime
    /\ ~TimerDue
    /\ sNow' = sNow + 1
    /\ UNCHANGED <<stage, sIsLocked, walletRef, mnemonicRef, ssEncryptedData,
                   ssPasswordHash, lastActivity, activityTimeoutRef,
                   idleTimer, isOpen, sOps, sInputs>>
    /\ UNCHANGED otherThanSession

\* checkSessionTimeout, every second, when it locks
CheckSessionTimeout ==
    /\ lastActivity # NoTimer
    /\ SessionTimedOut
    /\ ~sIsLocked
    /\ LockableStage(stage)
    /\ ClearSecrets
    /\ activityTimeoutRef' = NoTimeout
    /\ idleTimer' = ArmIdle(isOpen)
    /\ UNCHANGED <<stage, ssEncryptedData, ssPasswordHash, lastActivity,
                   isOpen, sNow, sOps, sInputs>>
    /\ UNCHANGED otherThanSession

\* the timer set by updateActivity fires
ActivityTimeout ==
    /\ activityTimeoutRef.at # NoTimer
    /\ activityTimeoutRef.at <= sNow
    /\ activityTimeoutRef' = NoTimeout
    /\ IF ~activityTimeoutRef.locked /\ LockableStage(activityTimeoutRef.stage)
         THEN /\ ClearSecrets
              /\ idleTimer' = ArmIdle(isOpen)
         ELSE UNCHANGED <<walletRef, mnemonicRef, sIsLocked, idleTimer>>
    /\ UNCHANGED <<stage, ssEncryptedData, ssPasswordHash, lastActivity,
                   isOpen, sNow, sOps, sInputs>>
    /\ UNCHANGED otherThanSession

\* resetState(), then window.location.href = '/': the page is loaded anew
\* over an empty sessionStorage
EndSessionExpired ==
    /\ stage' = "idle"
    /\ sIsLocked' = FALSE
    /\ walletRef' = FALSE
    /\ mnemonicRef' = FALSE
    /\ ssEncryptedData' = FALSE
    /\ ssPasswordHash' = FALSE
    /\ lastActivity' = NoTimer
    /\ activityTimeoutRef' = NoTimeout
    /\ sOps' = <<>>
    /\ isOpen' = FALSE
    /\ idleTimer' = ArmIdle(FALSE)

\* the timer of useIdleTimeout fires: if (isOpen) endSession(true)
IdleExpire ==
    /\ idleTimer.at # NoTimer
    /\ idleTimer.at <= sNow
    /\ IF idleTimer.open
         THEN EndSessionExpired
         ELSE /\ idleTimer' = NoIdleTimer
              /\ UNCHANGED <<stage, sIsLocked, walletRef, mnemonicRef,
                             ssEncryptedData, ssPasswordHash, lastActivity,
                             activityTimeoutRef, sOps, isOpen>>
    /\ UNCHANGED <<sNow, sInputs>>
    /\ UNCHANGED otherThanSession

NextSession ==
    \/ TrackedActivity
    \/ KeyDown
    \/ MouseMove
    \/ \E s \in Views : SetStage(s)
    \/ ToggleOverlay
    \/ LockButton
    \/ InitWalletStart
    \/ \E j \in 1..MaxOps : InitWalletDerived(j)
    \/ \E j \in 1..MaxOps : InitWalletFinish(j)
    \/ SUnlockStart
    \/ \E j \in 1..MaxOps : SUnlockFinish(j)
    \/ STick
    \/ CheckSessionTimeout
    \/ ActivityTimeout
    \/ IdleExpire

InitSession ==
    ClientInit /\ ServerIdle /\ WalletStart /\ ExplorerStart /\ LockStart
      /\ SessionStart /\ TxIdle /\ ParseIdle /\ DifficultyIdle /\ FetchIdle /\ FindIdle /\ ReuseIdle /\ VersionIdle /\ RateIdle /\ FlowIdle /\ RouteIdle /\ SpendIdle

SpecSession == InitSession /\ [][NextSession]_vars

\* timers fire, time passes and every await ends; nothing is assumed
\* about what the user does
FairSpecSession ==
    /\ SpecSession
    /\ WF_vars(STick)
    /\ WF_vars(CheckSessionTimeout)
    /\ WF_vars(ActivityTimeout)
    /\ WF_vars(IdleExpire)
    /\ \A j \in 1..MaxOps :
          WF_vars(InitWalletDerived(j) \/ InitWalletFinish(j)
                    \/ SUnlockFinish(j))

(***************************************************************************)
(* Claims about the session timeout and the lock.                          *)
(***************************************************************************)

\* an unlocked wallet is shown and no tracked activity happened for the
\* session timeout
SessionIdle ==
    /\ ~sIsLocked /\ walletRef /\ stage \in Views
    /\ lastActivity # NoTimer
    /\ sNow - lastActivity >= SESSION_TIMEOUT_MS

\* the session is locked and can be resumed with unlock(password)
LockedResumable ==
    /\ sIsLocked /\ ~walletRef /\ ~mnemonicRef
    /\ ssEncryptedData /\ ssPasswordHash

\* tracked activity happened within the session timeout
RecentActivity ==
    lastActivity # NoTimer /\ sNow - lastActivity < SESSION_TIMEOUT_MS

\* C13: an unlocked session without tracked user activity for the length of
\* the session timeout becomes locked, whatever wallet view it is in: the
\* key pair and the secret are cleared and the encrypted data and the
\* password hash stay in session storage (unless the user becomes active
\* again first).
C13_IdleSessionLocks == SessionIdle ~> (LockedResumable \/ RecentActivity)

\* C14: in every locked state walletRef and mnemonicRef are cleared and
\* getMnemonic() and getCurrentPrivateKey() return nothing, however lock
\* interleaves with the unlock and wallet initialisation calls in flight.
C14_LockedClearsSecrets ==
    sIsLocked => /\ ~walletRef /\ ~mnemonicRef
                 /\ ~getMnemonic /\ ~getCurrentPrivateKey


(***************************************************************************)
(* Fee estimation and transaction building                                 *)
(* (src/lib/wallet/transaction.ts).  A transaction is its number of        *)
(* inputs and the values of its outputs; addresses, scripts and            *)
(* signatures are left out, bitcoinjs-lib is taken to accept every         *)
(* transaction it is given.                                                *)
(***************************************************************************)

\* Math.ceil(a / b) for b > 0
Ceil(a, b) == IF a >= 0 THEN (a + b - 1) \div b ELSE 0 - ((0 - a) \div b)

Max(a, b) == IF a >= b THEN a ELSE b

RECURSIVE SumFirst(_, _)
\* the sum of the first n values of s
SumFirst(s, n) == IF n = 0 THEN 0 ELSE SumFirst(s, n - 1) + s[n]

\* estimateVBytes(inputCount, outputCount)
estimateVBytes(inputCount, outputCount) ==
    10 + inputCount * 68 + outputCount * 31

\* the fee always estimated for two outputs
FeeOfTwoOutputs(n, includeFee, feeRate) ==
    Ceil(estimateVBytes(n, 2) * feeRate[1], feeRate[2])

\* Math.ceil(estimateVBytes(n, includeFee ? 1 : 2) * feeRate)
FeeOf(n, includeFee, feeRate) ==
    Ceil(estimateVBytes(n, IF includeFee THEN 1 ELSE 2) * feeRate[1],
         feeRate[2])

RECURSIVE SelectUtxos(_, _, _, _, _)
\* the loop over utxos of both functions, after k of them: how many are
\* taken when it ends
SelectUtxos(utxos, k, amountSats, feeRate, includeFee) ==
    IF k = Len(utxos)
      THEN k
      ELSE LET totalIn == SumFirst(utxos, k + 1)
               needed == IF includeFee
                           THEN amountSats
                           ELSE amountSats + FeeOf(k + 1, includeFee, feeRate)
           IN  IF totalIn >= needed
                 THEN k + 1
                 ELSE SelectUtxos(utxos, k + 1, amountSats, feeRate,
                                  includeFee)

\* estimateFee(params)
estimateFee(amountSats, feeRate, utxos, includeFee) ==
    IF utxos = <<>> \/ amountSats <= 0
      THEN [called |-> TRUE, estimatedFee |-> 0, actualAmountSats |-> 0,
            totalNeeded |-> 0]
      ELSE LET n == SelectUtxos(utxos, 0, amountSats, feeRate, includeFee)
               fee == FeeOf(n, includeFee, feeRate)
           IN  [called |-> TRUE,
                estimatedFee |-> fee,
                actualAmountSats |->
                    IF includeFee THEN Max(0, amountSats - fee)
                                  ELSE amountSats,
                totalNeeded |->
                    IF includeFee THEN amountSats ELSE amountSats + fee]

\* throw new Error(message)
Thrown(message) == [kind |-> message, inputs |-> 0, outs |-> <<>>, fee |-> 0]

\* a change up to 1000 gets no output
AddsChangeAboveThousand(change) == change > 1000

\* a change of exactly 546 gets an output too
AddsChangeAtDust(change) == change >= DustLimit

\* if (change > 546)
AddsChange(change) == change > DustLimit

\* the fee is never found larger than the amount
TooSmallNever(actualAmountSats, includeFee) == FALSE

\* if (actualAmountSats <= 0 && includeFee)
TooSmall(actualAmountSats, includeFee) == actualAmountSats <= 0 /\ includeFee

\* buildAndSignTx(params)
buildAndSignTx(amountSats, feeRate, utxos, includeFee) ==
    IF amountSats <= 0 THEN Thrown("Amount must be positive")
    ELSE IF utxos = <<>> THEN Thrown("No funds available")
    ELSE
      LET n == SelectUtxos(utxos, 0, amountSats, feeRate, includeFee)
          totalIn == SumFirst(utxos, n)
          estimatedFee == FeeOf(n, includeFee, feeRate)
          actualAmountSats == IF includeFee
                                THEN Max(0, amountSats - estimatedFee)
                                ELSE amountSats
          change == totalIn - actualAmountSats - estimatedFee
          outs == IF AddsChange(change)
                    THEN <<actualAmountSats, change>>
                    ELSE <<actualAmountSats>>
      IN  IF TooSmall(actualAmountSats, includeFee)
            THEN Thrown("Amount is too small to cover the transaction fee")
          ELSE IF change < 0
            THEN Thrown("Insufficient balance for amount + fee")
          ELSE [kind |-> "tx", inputs |-> n, outs |-> outs,
                fee |-> totalIn - SumFirst(outs, Len(outs))]

\* the wallet calls buildAndSignTx
BuildAndSignTx ==
    /\ txBuilt = NotBuilt
    /\ txBuilt' = buildAndSignTx(txAmount, txFeeRate, txUtxos, txIncludeFee)
    /\ UNCHANGED <<txAmount, txFeeRate, txUtxos, txIncludeFee, txEstimated>>
    /\ UNCHANGED otherThanTx

\* the wallet calls estimateFee
EstimateFee ==
    /\ txEstimated = NotEstimated
    /\ txEstimated' = estimateFee(txAmount, txFeeRate, txUtxos, txIncludeFee)
    /\ UNCHANGED <<txAmount, txFeeRate, txUtxos, txIncludeFee, txBuilt>>
    /\ UNCHANGED otherThanTx

NextTx ==
    \/ BuildAndSignTx
    \/ EstimateFee

InitTx ==
    ClientInit /\ ServerIdle /\ WalletStart /\ ExplorerStart /\ LockStart
      /\ SessionStart /\ TxStart /\ ParseIdle /\ DifficultyIdle /\ FetchIdle /\ FindIdle /\ ReuseIdle /\ VersionIdle /\ RateIdle /\ FlowIdle /\ RouteIdle /\ SpendIdle

SpecTx == InitTx /\ [][NextTx]_vars

(***************************************************************************)
(* Claims about fees and transactions.                                     *)
(***************************************************************************)

\* what the selection loop takes for the spend at hand
TxSelected == SelectUtxos(txUtxos, 0, txAmount, txFeeRate, txIncludeFee)

TxTotalIn == SumFirst(txUtxos, TxSelected)

TxFee == FeeOf(TxSelected, txIncludeFee, txFeeRate)

\* C15: when buildAndSignTx succeeds, the fee it returns (selected inputs
\* minus outputs) differs from estimateFee's estimatedFee by at most
\* feeRate satoshis.
C15_FeeMatchesEstimate ==
    (txBuilt.kind = "tx" /\ txEstimated.called) =>
        LET d == txBuilt.fee - txEstimated.estimatedFee
        IN  /\ d * txFeeRate[2] <= txFeeRate[1]
            /\ (0 - d) * txFeeRate[2] <= txFeeRate[1]

\* C16: the built transaction has a change output exactly when the change
\* (selected inputs minus the recipient's output minus the fee) is above
\* 546, the output carries exactly the change, and so is never below 546.
C16_ChangeAboveDust ==
    txBuilt.kind = "tx" =>
        LET change == TxTotalIn - txBuilt.outs[1] - TxFee
        IN  /\ Len(txBuilt.outs) = 2 <=> change > 546
            /\ Len(txBuilt.outs) = 2 =>
                  txBuilt.outs[2] = change /\ txBuilt.outs[2] >= 546
            /\ Len(txBuilt.outs) \in {1, 2}

C16_Witness ==
    /\ txBuilt.kind = "tx"
    /\ Len(txBuilt.outs) = 2
    /\ txBuilt.outs[2] = 547

\* the four ways of failing, read off the inputs
InvalidAmount == txAmount <= 0

NoFunds == txUtxos = <<>>

AmountBelowFee == txIncludeFee /\ txAmount - TxFee <= 0

InsufficientBalance ==
    TxTotalIn < (IF txIncludeFee THEN txAmount ELSE txAmount + TxFee)

ToHex(bytes) ==
    [i \in 1..(2 * Len(bytes)) |->
        IF i % 2 = 1 THEN bytes[(i + 1) \div 2] \div 16
                     ELSE bytes[i \div 2] % 16]

\* Buffer.from(hex, 'hex'): a digit left over at the end is dropped
FromHex(hex) ==
    [i \in 1..(Len(hex) \div 2) |-> 16 * hex[2 * i - 1] + hex[2 * i]]

\* Buffer.reverse()
Reverse(s) == [i \in 1..Len(s) |-> s[Len(s) + 1 - i]]

\* n times the byte b
Rep(b, n) == [i \in 1..n |-> b]

\* crypto.createHash('sha256').update(bytes).digest(), replaced by a
\* one-to-one function
Sha256(bytes) == [i \in 1..Len(bytes) |-> (bytes[i] + 1) % 256]

\* double SHA256, reversed, as hex
HashHex(bytes) == ToHex(Reverse(Sha256(Sha256(bytes))))

\* buffer.readUInt16BE(offset)
readUInt16BE(buf, offset) == 256 * buf[offset + 1] + buf[offset + 2]

\* buffer.readUInt16LE(offset)
readUInt16LE(buf, offset) == buf[offset + 1] + 256 * buf[offset + 2]

\* buffer.readUInt32LE(offset)
readUInt32LE(buf, offset) ==
    buf[offset + 1] + 256 * buf[offset + 2] + 65536 * buf[offset + 3]
      + 16777216 * buf[offset + 4]

\* an 80-byte block header
Header == [i \in 1..80 |-> (i * 3) % 100]

\* a transaction with one input without script and one output with a
\* one-byte script
TxA ==
    <<1, 0, 0, 0>> \o <<1>> \o Rep(17, 32) \o <<0, 0, 0, 0>> \o <<0>>
      \o Rep(250, 4) \o <<1>> \o <<16, 0, 0, 0, 0, 0, 0, 0>> \o <<1, 81>>
      \o <<0, 0, 0, 0>>

\* a transaction with one input with a two-byte script and two outputs
\* without script
TxB ==
    <<2, 0, 0, 0>> \o <<1>> \o Rep(34, 32) \o <<1, 0, 0, 0>> \o <<2, 81, 82>>
      \o Rep(250, 4) \o <<2>> \o <<32, 0, 0, 0, 0, 0, 0, 0>> \o <<0>>
      \o <<48, 0, 0, 0, 0, 0, 0, 0>> \o <<0>> \o <<0, 0, 0, 0>>

TxLists == UNION {[1..n -> {TxA, TxB}] : n \in 0..MaxTxs}

RECURSIVE Concat(_)
\* the sequences of ss one after the other
Concat(ss) == IF ss = <<>> THEN <<>> ELSE Head(ss) \o Concat(Tail(ss))

\* the block of these transactions, as hex
SerialiseBlock(txs) == ToHex(Header \o <<Len(txs)>> \o Concat(txs))

\* where the hex string is cut: after any byte, and in the middle of the
\* bytes around the end of the header
Cuts(n) == {c \in 0..n : c % 2 = 0 \/ c \in {159, 161}}

\* the first byte of the transaction count and the bytes after it
FirstBytes == {0, 1, 252, 253, 254, 255}

TailBytes == UNION {[1..n -> {1, 127}] : n \in 0..MaxTailBytes}

\* a block of the explorer, whole or truncated, or a header followed by
\* a transaction count
ParseStart ==
    /\ \/ \E txs \in TxLists :
            /\ blockTxs = txs
            /\ \E c \in Cuts(Len(SerialiseBlock(txs))) :
                  blockHex = SubSeq(SerialiseBlock(txs), 1, c)
       \/ \E first \in FirstBytes, tail \in TailBytes :
            /\ blockTxs = <<>>
            /\ blockHex = ToHex(Header \o <<first>> \o tail)
    /\ ParsePending

\* the fields of an 80-byte header
DecodeHeader(header) ==
    [called |-> TRUE, err |-> "none",
     hash |-> HashHex(header),
     version |-> readUInt32LE(header, 0),
     prevHash |-> ToHex(Reverse(SubSeq(header, 5, 36))),
     merkleRoot |-> ToHex(Reverse(SubSeq(header, 37, 68))),
     timestamp |-> readUInt32LE(header, 68),
     bits |-> readUInt32LE(header, 72),
     nonce |-> readUInt32LE(header, 76)]

\* throw new Error(message) in parseBlockHeader
HeaderError(message) == [NoHeader EXCEPT !.called = TRUE, !.err = message]

\* parseBlockHeader(headerHex)
parseBlockHeader(headerHex) ==
    IF Len(headerHex) < 160
      THEN HeaderError("Invalid block header hex string")
      ELSE LET header == FromHex(headerHex)
           IN  IF Len(header) # 80
                 THEN HeaderError("Invalid header length")
                 ELSE DecodeHeader(header)

\* parseBlock(blockData) for a string; size is blockData.length / 2, kept
\* as the pair <<length, 2>>
parseBlock(blockData) ==
    LET header == parseBlockHeader(blockData)
    IN  IF header.err # "none"
          THEN [NoBlock EXCEPT !.called = TRUE, !.err = header.err]
          ELSE [called |-> TRUE, err |-> "none", header |-> header,
                size |-> Len(blockData), tx_count |-> 0]

\* parseTxCountFromBlockHex(blockHex): the value it returns
parseTxCountFromBlockHex(hex) ==
    IF Len(hex) <= 160 THEN 0
    ELSE
      LET blockBuffer == FromHex(hex)
          offset == 80
      IN  IF offset >= Len(blockBuffer) THEN 0
          ELSE
            LET firstByte == blockBuffer[offset + 1]
            IN  IF firstByte < 253 THEN firstByte
                ELSE IF firstByte = 253
                  THEN IF offset + 3 <= Len(blockBuffer)
                         THEN readUInt16LE(blockBuffer, offset + 1)
                         ELSE 0
                ELSE IF firstByte = 254
                  THEN IF offset + 5 <= Len(blockBuffer)
                         THEN readUInt32LE(blockBuffer, offset + 1)
                         ELSE 0
                ELSE IF offset + 9 <= Len(blockBuffer)
                         THEN readUInt32LE(blockBuffer, offset + 1)
                         ELSE 0

\* throw new Error('Buffer overflow reading varint')
VarintOverflow == [threw |-> TRUE, value |-> 0, size |-> 0]

\* readVarint(buffer, offset)
readVarint(buffer, offset) ==
    IF offset >= Len(buffer) THEN VarintOverflow
    ELSE
      LET firstByte == buffer[offset + 1]
      IN  IF firstByte < 253
            THEN [threw |-> FALSE, value |-> firstByte, size |-> 1]
          ELSE IF firstByte = 253
            THEN IF offset + 3 > Len(buffer) THEN VarintOverflow
                 ELSE [threw |-> FALSE,
                       value |-> readUInt16LE(buffer, offset + 1),
                       size |-> 3]
          ELSE IF firstByte = 254
            THEN IF offset + 5 > Len(buffer) THEN VarintOverflow
                 ELSE [threw |-> FALSE,
                       value |-> readUInt32LE(buffer, offset + 1),
                       size |-> 5]
          ELSE IF offset + 9 > Len(buffer) THEN VarintOverflow
               ELSE [threw |-> FALSE,
                     value |-> readUInt32LE(buffer, offset + 1),
                     size |-> 9]

RECURSIVE SkipInputs(_, _, _, _)
\* the loop over the inputs of a transaction from its j-th round on: where
\* offset is when the loop is left, by its condition or by a break
SkipInputs(buffer, offset, j, count) ==
    IF ~(j < count /\ offset < Len(buffer))
      THEN [threw |-> FALSE, offset |-> offset]
    ELSE IF offset + 36 > Len(buffer)
      THEN [threw |-> FALSE, offset |-> offset]
    ELSE
      LET scriptLen == readVarint(buffer, offset + 36)
          atScript == offset + 36 + scriptLen.size
      IN  IF scriptLen.threw THEN [threw |-> TRUE, offset |-> offset]
          ELSE IF atScript + scriptLen.value > Len(buffer)
            THEN [threw |-> FALSE, offset |-> atScript]
          ELSE IF atScript + scriptLen.value + 4 > Len(buffer)
            THEN [threw |-> FALSE, offset |-> atScript + scriptLen.value]
          ELSE SkipInputs(buffer, atScript + scriptLen.value + 4, j + 1,
                          count)

RECURSIVE SkipOutputs(_, _, _, _)
\* the loop over the outputs of a transaction from its j-th round on
SkipOutputs(buffer, offset, j, count) ==
    IF ~(j < count /\ offset < Len(buffer))
      THEN [threw |-> FALSE, offset |-> offset]
    ELSE IF offset + 8 > Len(buffer)
      THEN [threw |-> FALSE, offset |-> offset]
    ELSE
      LET scriptLen == readVarint(buffer, offset + 8)
          atScript == offset + 8 + scriptLen.size
      IN  IF scriptLen.threw THEN [threw |-> TRUE, offset |-> offset]
          ELSE IF atScript + scriptLen.value > Len(buffer)
            THEN [threw |-> FALSE, offset |-> atScript]
          ELSE SkipOutputs(buffer, atScript + scriptLen.value, j + 1, count)

\* return txHashes
Returned(hashes) == [called |-> TRUE, threw |-> FALSE, hashes |-> hashes]

\* catch (error) { return [] }
Caught(hashes) == Returned(<<>>)

RECURSIVE ParseTxs(_, _, _, _, _, _)
\* the loop over the transactions from its i-th round on
ParseTxs(hex, buffer, offset, i, txCount, hashes) ==
    IF ~(i < txCount /\ offset < Len(buffer)) THEN Returned(hashes)
    ELSE IF offset + 4 > Len(buffer) THEN Returned(hashes)
    ELSE
      LET inputCount == readVarint(buffer, offset + 4)
          ins == SkipInputs(buffer, offset + 4 + inputCount.size, 0,
                            inputCount.value)
          outputCount == readVarint(buffer, ins.offset)
          outs == SkipOutputs(buffer, ins.offset + outputCount.size, 0,
                              outputCount.value)
          end == outs.offset + 4
          txHex == SubSeq(hex, offset * 2 + 1, end * 2)
          txid == HashHex(FromHex(txHex))
      IN  IF inputCount.threw THEN Caught(hashes)
          ELSE IF ins.threw THEN Caught(hashes)
          ELSE IF ins.offset >= Len(buffer) THEN Returned(hashes)
          ELSE IF outputCount.threw THEN Caught(hashes)
          ELSE IF outs.threw THEN Caught(hashes)
          ELSE IF outs.offset + 4 > Len(buffer) THEN Returned(hashes)
          ELSE ParseTxs(hex, buffer, end, i + 1, txCount,
                        Append(hashes, txid))

\* parseTransactionHashesFromBlock(blockHex)
parseTransactionHashesFromBlock(hex) ==
    IF Len(hex) <= 160 THEN Returned(<<>>)
    ELSE
      LET blockBuffer == FromHex(hex)
          txCount == readVarint(blockBuffer, 80)
      IN  IF txCount.threw THEN Caught(<<>>)
          ELSE ParseTxs(hex, blockBuffer, 80 + txCount.size, 0,
                        txCount.value, <<>>)

\* the explorer lists the transactions of the block
ParseTransactionHashes ==
    /\ ParsePending
    /\ txHashes' = parseTransactionHashesFromBlock(blockHex)
    /\ UNCHANGED <<blockHex, blockTxs, headerOut, blockOut, txCountOut>>
    /\ UNCHANGED otherThanParse

\* the explorer decodes the header
ParseBlockHeader ==
    /\ ParsePending
    /\ headerOut' = parseBlockHeader(blockHex)
    /\ UNCHANGED <<blockHex, blockTxs, txHashes, blockOut, txCountOut>>
    /\ UNCHANGED otherThanParse

\* the explorer parses the block it got as a hex string
ParseBlock ==
    /\ ParsePending
    /\ blockOut' = parseBlock(blockHex)
    /\ UNCHANGED <<blockHex, blockTxs, txHashes, headerOut, txCountOut>>
    /\ UNCHANGED otherThanParse

\* the explorer counts the transactions of the block
ParseTxCount ==
    /\ ParsePending
    /\ txCountOut' = [called |-> TRUE,
                      value |-> parseTxCountFromBlockHex(blockHex)]
    /\ UNCHANGED <<blockHex, blockTxs, txHashes, headerOut, blockOut>>
    /\ UNCHANGED otherThanParse

NextParse ==
    \/ ParseTransactionHashes
    \/ ParseBlockHeader
    \/ ParseBlock
    \/ ParseTxCount

InitParse ==
    ClientInit /\ ServerIdle /\ WalletStart /\ ExplorerStart /\ LockStart
      /\ SessionStart /\ TxIdle /\ ParseStart /\ DifficultyIdle /\ FetchIdle /\ FindIdle /\ ReuseIdle /\ VersionIdle /\ RateIdle /\ FlowIdle /\ RouteIdle /\ SpendIdle

SpecParse == InitParse /\ [][NextParse]_vars

(***************************************************************************)
(* Claims about block parsing.                                             *)
(***************************************************************************)

RECURSIVE CompleteTxs(_, _, _)
\* how many of the transactions txs, the first of which starts at byte
\* offset at, lie completely within the first len bytes
CompleteTxs(txs, at, len) ==
    IF txs = <<>> \/ at + Len(Head(txs)) > len
      THEN 0
      ELSE 1 + CompleteTxs(Tail(txs), at + Len(Head(txs)), len)

\* the txids of the transactions that lie completely before the cut
ExpectedHashes ==
    LET n == CompleteTxs(blockTxs, 81, Len(blockHex) \div 2)
    IN  [i \in 1..n |-> HashHex(blockTxs[i])]

\* C18: on a block truncated at any byte parseTransactionHashesFromBlock
\* does not throw and returns exactly the txids of the transactions that
\* lie completely before the truncation point, in order.
C18_TruncatedBlock ==
    txHashes.called =>
        /\ ~txHashes.threw
        /\ txHashes.hashes = ExpectedHashes

\* C19: parseBlockHeader decodes the header of every hex string of at
\* least 160 characters and fails only for a shorter one; parseBlock
\* parses a full block given as hex.
C19_HeaderOfLongHex ==
    /\ headerOut.called =>
          IF Len(blockHex) >= 160
            THEN headerOut = DecodeHeader(FromHex(SubSeq(blockHex, 1, 160)))
            ELSE headerOut.err # "none"
    /\ (blockOut.called /\ Len(blockHex) >= 160) => blockOut.err = "none"

RECURSIVE LittleEndian(_)
\* the number whose little-endian bytes are bytes
LittleEndian(bytes) ==
    IF bytes = <<>> THEN 0 ELSE Head(bytes) + 256 * LittleEndian(Tail(bytes))

\* the bytes of the block from offset 80 on
AfterHeader ==
    LET buf == FromHex(blockHex) IN SubSeq(buf, 81, Len(buf))

\* the bytes that make up the varint that starts with this byte
VarintSize(firstByte) ==
    IF firstByte < 253 THEN 1
    ELSE IF firstByte = 253 THEN 3
    ELSE IF firstByte = 254 THEN 5
    ELSE 9

\* C20: parseTxCountFromBlockHex returns the value of the varint at byte
\* offset 80: the byte itself below 0xfd, the next 2 bytes after 0xfd, the
\* next 4 bytes after 0xfe and the low 32 bits of the next 8 bytes after
\* 0xff, all little-endian; it returns 0 when only the header is there.
C20_TxCountVarint ==
    txCountOut.called =>
        IF AfterHeader = <<>>
          THEN txCountOut.value = 0
          ELSE LET b == AfterHeader[1]
               IN  Len(AfterHeader) >= VarintSize(b) =>
                     txCountOut.value =
                        IF b < 253 THEN b
                        ELSE IF b = 253
                          THEN LittleEndian(SubSeq(AfterHeader, 2, 3))
                        ELSE LittleEndian(SubSeq(AfterHeader, 2, 5))

C20_Witness ==
    /\ txCountOut.called
    /\ Len(AfterHeader) = 9
    /\ AfterHeader[1] = 255
    /\ AfterHeader[6] = 127
    /\ txCountOut.value = 1 + 256 * 127 + 65536 + 16777216 * 127


(***************************************************************************)
(* calculateDifficultyFromBits (src/lib/utils.ts:171-191).                 *)
(*                                                                         *)
(* A JavaScript number that is an integer times a power of two is held as  *)
(* [m, e] with m odd (or 0) and value m * 2^e; a quotient of two such      *)
(* numbers is held exactly as [n, d, e] with n and d odd and coprime and   *)
(* value (n / d) * 2^e.  Every product below has fewer than 53 significant *)
(* bits, so the double the code computes is the number held here; the      *)
(* double of a quotient is the one nearest to the number held here, and    *)
(* is that number whenever d = 1.                                          *)
(***************************************************************************)
RECURSIVE Pow2(_)
Pow2(k) == IF k = 0 THEN 1 ELSE 2 * Pow2(k - 1)

RECURSIVE Num(_, _)
\* the number m * 2^e
Num(m, e) ==
    IF m = 0 THEN [m |-> 0, e |-> 0]
    ELSE IF m % 2 = 0 THEN Num(m \div 2, e + 1)
    ELSE [m |-> m, e |-> e]

\* Math.pow(256, k)
Pow256(k) == Num(1, 8 * k)

\* a * b
Times(a, b) == Num(a.m * b.m, a.e + b.e)

RECURSIVE Gcd(_, _)
Gcd(a, b) == IF b = 0 THEN a ELSE Gcd(b, a % b)

\* a / b for b # 0
Quotient(a, b) ==
    IF a.m = 0 THEN [n |-> 0, d |-> 1, e |-> 0]
    ELSE LET g == Gcd(a.m, b.m) IN
         [n |-> a.m \div g, d |-> b.m \div g, e |-> a.e - b.e]

\* bits >>> n on a 32-bit unsigned value
ShiftRight(x, n) == x \div Pow2(n)

\* utils.ts:177: 0xffff0000 * Math.pow(256, 0x1d - 3); 0xffff0000 is
\* 65535 * 2^16
maxTarget == Times(Num(65535, 16), Pow256(29 - 3))

\* utils.ts:180-185
Target(exponent, mantissa) ==
    IF exponent <= 3
    THEN Num(ShiftRight(mantissa, 8 * (3 - exponent)), 0)
    ELSE Times(Num(mantissa, 0), Pow256(exponent - 3))

calculateDifficultyFromBits(bits) ==
    LET exponent == ShiftRight(bits, 24)
        \* bits & 0x007fffff
        mantissa == bits % 8388608
        target == Target(exponent, mantissa)
    IN  IF target.m = 0 THEN [n |-> 0, d |-> 1, e |-> 0]
        ELSE Quotient(maxTarget, target)

CalculateDifficulty ==
    /\ ~dDifficulty.called
    /\ dDifficulty' = [called |-> TRUE] @@ calculateDifficultyFromBits(dBits)
    /\ UNCHANGED dBits
    /\ UNCHANGED otherThanDifficulty

NextDifficulty ==
    \/ CalculateDifficulty

InitDifficulty ==
    ClientInit /\ ServerIdle /\ WalletStart /\ ExplorerStart /\ LockStart
      /\ SessionStart /\ TxIdle /\ ParseIdle /\ DifficultyStart /\ FetchIdle /\ FindIdle /\ ReuseIdle /\ VersionIdle /\ RateIdle /\ FlowIdle /\ RouteIdle /\ SpendIdle

SpecDifficulty == InitDifficulty /\ [][NextDifficulty]_vars

(***************************************************************************)
(* Claims about the difficulty.                                            *)
(***************************************************************************)

\* the bits value 0x1d00ffff
GenesisBits == 29 * 16777216 + 65535

\* C21: calculateDifficultyFromBits(0x1d00ffff) is 1: the result is the
\* number (1 / 1) * 2^0.
C21_GenesisDifficultyOne ==
    (dDifficulty.called /\ dBits = GenesisBits)
        => (dDifficulty.n = 1 /\ dDifficulty.d = 1 /\ dDifficulty.e = 0)



(***************************************************************************)
(* fetchBlockByHeight and countTransactionsInBlock                         *)
(* (src/lib/blockParser.ts:29-223).                                        *)
(***************************************************************************)

\* numbers of transactions of the block fetched
TxCounts == {0, 1, 49, 50, 51, 100, 9999, 10000, 10001}

\* a response of the given type
Response(type, hex, tx_count, nTx, txLen) ==
    [type |-> type, hex |-> hex, tx_count |-> tx_count, nTx |-> nTx,
     txLen |-> txLen]

\* hex strings the server answers with: a header cut short, a header, and
\* a header followed by a one-byte transaction count
HexResponses ==
    {ToHex(SubSeq(Header, 1, 79)), ToHex(Header)}
      \cup {ToHex(Header \o <<k>>) : k \in {0, 2, 60}}

\* objects the server answers with
ObjectResponses ==
    {Response("object", <<>>, Undefined, Undefined, Undefined),
     Response("object", <<>>, 0, 60, Undefined),
     Response("object", <<>>, 60, Undefined, Undefined),
     Response("object", <<>>, Undefined, 2, 60),
     Response("object", <<>>, Undefined, Undefined, 60),
     Response("object", ToHex(Header \o <<60>>), Undefined, Undefined,
              Undefined)}

\* the answers to blockchain.block.header: a string, an object, something
\* else (null, a number), or a rejection
Responses ==
    {Response("string", h, Undefined, Undefined, Undefined) :
        h \in HexResponses}
      \cup ObjectResponses
      \cup {Response(t, <<>>, Undefined, Undefined, Undefined) :
              t \in {"other", "rejected"}}

\* fetchBlockByHeight(network, height) has sent its header request
FetchStart ==
    /\ fbNTx \in TxCounts
    /\ fbResponse \in Responses
    /\ fbPc = "header"
    /\ fbParsed = 0
    /\ fbStartPos = 0
    /\ fbCount = 0
    /\ fbFailed = FALSE
    /\ fbResult = NoFetch

\* blockParser.ts:182-191: parsedCount of an object response
ObjectParsedCount(blockObj) ==
    IF blockObj.tx_count # Undefined THEN blockObj.tx_count
    ELSE IF blockObj.nTx # Undefined THEN blockObj.nTx
    ELSE IF blockObj.txLen # Undefined THEN blockObj.txLen
    ELSE IF Len(blockObj.hex) > 160 THEN parseTxCountFromBlockHex(blockObj.hex)
    ELSE 0

\* blockParser.ts:122-131, 182-196: the parsed count the probed count is
\* compared with (0 when only the header is available)
ParsedCount(response) ==
    IF response.type = "string"
    THEN IF Len(response.hex) > 160
         THEN parseTxCountFromBlockHex(response.hex) ELSE 0
    ELSE ObjectParsedCount(response)

\* blockParser.ts:91-105, 132-134, 197-199: the response ends the call with
\* an error
FetchThrows(response) ==
    \/ response.type \in {"other", "rejected"}
    \/ response.type = "string" /\ Len(response.hex) < 160

\* the await of the header request ends
FetchHeaderReply ==
    /\ fbPc = "header"
    /\ IF FetchThrows(fbResponse)
       THEN /\ fbPc' = "done"
            /\ fbResult' = [status |-> "threw", tx_count |-> 0]
            /\ UNCHANGED fbParsed
       ELSE /\ fbPc' = "probing"
            /\ fbParsed' = ParsedCount(fbResponse)
            /\ UNCHANGED fbResult
    /\ UNCHANGED <<fbNTx, fbResponse, fbStartPos, fbCount, fbFailed>>
    /\ UNCHANGED otherThanFetch

\* positions startPos .. startPos + batchSize - 1 that hold a transaction
Existing(startPos) ==
    IF fbNTx <= startPos THEN 0
    ELSE IF fbNTx - startPos >= batchSize THEN batchSize
    ELSE fbNTx - startPos

\* the smaller of the two counts
TxCountSmaller(actualCount, parsedCount) ==
    IF actualCount < parsedCount THEN actualCount ELSE parsedCount

\* blockParser.ts:127-131, 194-196 and 210: the larger of the two counts
TxCountOf(actualCount, parsedCount) ==
    IF actualCount > parsedCount THEN actualCount ELSE parsedCount

\* blockParser.ts:40-76: Promise.all of one batch resolves; fails of the
\* lookups of existing positions were rejected.  When the loop ends,
\* fetchBlockByHeight goes on to its return statement in the same step.
ProbeBatch(fails) ==
    /\ fbPc = "probing"
    /\ fails <= Existing(fbStartPos)
    /\ LET foundCount == Existing(fbStartPos) - fails
           count == IF foundCount = 0 THEN fbCount ELSE fbCount + foundCount
           ends == \/ foundCount = 0
                   \/ foundCount < batchSize
                   \/ ~(fbStartPos + batchSize < maxAttempts)
       IN  /\ fbCount' = count
           /\ fbFailed' = (fbFailed \/ fails > 0)
           /\ IF ends
              THEN /\ fbPc' = "done"
                   /\ fbResult' = [status |-> "returned",
                                   tx_count |-> TxCountOf(count, fbParsed)]
                   /\ UNCHANGED fbStartPos
              ELSE /\ fbStartPos' = fbStartPos + batchSize
                   /\ UNCHANGED <<fbPc, fbResult>>
    /\ UNCHANGED <<fbNTx, fbResponse, fbParsed>>
    /\ UNCHANGED otherThanFetch

NextFetch ==
    \/ FetchHeaderReply
    \/ \E fails \in 0..MaxFails : ProbeBatch(fails)

InitFetch ==
    ClientInit /\ ServerIdle /\ WalletStart /\ ExplorerStart /\ LockStart
      /\ SessionStart /\ TxIdle /\ ParseIdle /\ DifficultyIdle /\ FetchStart /\ FindIdle /\ ReuseIdle /\ VersionIdle /\ RateIdle /\ FlowIdle /\ RouteIdle /\ SpendIdle

SpecFetch == InitFetch /\ [][NextFetch]_vars

(***************************************************************************)
(* Claims about fetchBlockByHeight.                                        *)
(***************************************************************************)

\* the call returned a block
FetchReturned == fbResult.status = "returned"

\* the reported tx_count is the larger of the parsed and the probed count
ReportsLarger ==
    FetchReturned
      => /\ fbResult.tx_count >= fbParsed
         /\ fbResult.tx_count >= fbCount
         /\ fbResult.tx_count \in {fbParsed, fbCount}

\* C22 as stated: tx_count is the larger of the parsed and the probed
\* count, and when no lookup fails the probed count of a block with n
\* transactions is n.
C22_ProbedCountExact ==
    /\ ReportsLarger
    /\ (FetchReturned /\ ~fbFailed) => fbCount = fbNTx

\* C22 with the limit of the probe: tx_count is the larger of the parsed and
\* the probed count, and when no lookup fails the probed count of a block
\* with n transactions is n up to maxAttempts, and maxAttempts beyond.
C22_ProbedCountUpToLimit ==
    /\ ReportsLarger
    /\ (FetchReturned /\ ~fbFailed)
         => fbCount = (IF fbNTx <= maxAttempts THEN fbNTx ELSE maxAttempts)

\* a block of 100 transactions whose response declares 60 was probed in
\* three batches without a failure and reported with 100 transactions
C22_Witness ==
    /\ FetchReturned /\ ~fbFailed
    /\ fbNTx = 100 /\ fbParsed = 60 /\ fbStartPos = 100
    /\ fbResult.tx_count = 100


(***************************************************************************)
(* findBlockHeightByHash (src/lib/blockParser.ts:228-332; the method of    *)
(* the same name at src/lib/cyberyen-api-client.ts:322-407 has the same    *)
(* body).  The block at height h of the server's chain is identified with  *)
(* h: the header fetched for h hashes to the requested hash exactly when   *)
(* h = fhTarget.                                                           *)
(***************************************************************************)

\* heights of the server's chain
Tips == {0, 30, 450, 1500}

\* heights of the block searched for
Targets == {0, 29, 30, 250, 450, 500, 501, 1300, 1500}

\* hints given by the caller
Hints == {Undefined, 0, 40, 450, 700, 5000}

\* findBlockHeightByHash(network, hash, fromHeight) has sent its tip request
FindStart ==
    /\ fhTip \in Tips
    /\ fhTarget \in {NoHeight} \cup {t \in Targets : t <= fhTip}
    /\ fromHeight \in Hints
    /\ fhPc = "tip"
    /\ heightsToCheck = <<>>
    /\ fhAt = 0
    /\ fhElapsed = 0
    /\ fhFailed = FALSE
    /\ fhBatches = [hint |-> 0, recent |-> 0]
    /\ fhResult = NoFind

\* blockParser.ts:248-253: the heights pushed for one offset
Pushed(from, currentHeight, offset) ==
    IF offset = 0 THEN <<from>>
    ELSE (IF from - offset >= 0 THEN <<from - offset>> ELSE <<>>)
           \o (IF from + offset <= currentHeight
                 THEN <<from + offset>> ELSE <<>>)

RECURSIVE BuildHeights(_, _, _, _)
\* blockParser.ts:245-254: the heights pushed for the offsets lo .. hi, in
\* the order of the offsets
BuildHeights(from, currentHeight, lo, hi) ==
    IF lo > hi THEN <<>>
    ELSE IF lo = hi THEN Pushed(from, currentHeight, lo)
    ELSE LET mid == (lo + hi) \div 2
         IN  BuildHeights(from, currentHeight, lo, mid)
               \o BuildHeights(from, currentHeight, mid + 1, hi)

\* the control state in which the call returns height
Return(height) ==
    [pc |-> "done", at |-> 0,
     result |-> [status |-> "returned", height |-> height]]

\* the control state in which the call awaits a batch
Await(pc, at) == [pc |-> pc, at |-> at, result |-> NoFind]

\* blockParser.ts:295-296: the head of the recent loop
RecentLoop(batchStart, currentHeight, elapsed) ==
    IF /\ batchStart < recentLimit
       /\ currentHeight - batchStart >= 0
       /\ ~(elapsed > 1)
    THEN Await("recent", batchStart)
    ELSE Return(NoHeight)

\* blockParser.ts:291: the recent blocks are scanned while time is left
RecentEntry(currentHeight, elapsed) ==
    IF elapsed < 1 THEN RecentLoop(0, currentHeight, elapsed)
    ELSE Return(NoHeight)

\* blockParser.ts:258-259: the head of the hint loop
HintLoop(i, heights, currentHeight, elapsed) ==
    IF i < Len(heights) /\ ~(elapsed > 1)
    THEN Await("hint", i)
    ELSE RecentEntry(currentHeight, elapsed)

\* results.find(h => h !== null) gave a height
FoundTruthy(found) == found # NoHeight /\ found # 0

\* blockParser.ts:284: found !== null && found !== undefined
Found(found) == found # NoHeight

\* the variables of the control state c
GoTo(c) ==
    /\ fhPc' = c.pc
    /\ fhAt' = c.at
    /\ fhResult' = c.result

\* the await of blockchain.headers.subscribe ends: rejected, or with the tip
FindTipReply(ok) ==
    /\ fhPc = "tip"
    /\ IF ~ok
       THEN /\ fhPc' = "done"
            /\ fhResult' = [status |-> "threw", height |-> NoHeight]
            /\ UNCHANGED <<heightsToCheck, fhAt>>
       ELSE LET currentHeight == fhTip
                heights == IF fromHeight # Undefined
                           THEN BuildHeights(fromHeight, currentHeight, 0,
                                             searchRange)
                           ELSE <<>>
            IN  /\ heightsToCheck' = heights
                /\ GoTo(IF fromHeight # Undefined
                        THEN HintLoop(0, heights, currentHeight, fhElapsed)
                        ELSE RecentEntry(currentHeight, fhElapsed))
    /\ UNCHANGED <<fhTip, fhTarget, fromHeight, fhElapsed, fhFailed,
                   fhBatches>>
    /\ UNCHANGED otherThanFind

\* blockParser.ts:262-281, 302-321: the result of Promise.all on batch; the
\* header of fhTarget is fetched when it is in batch, and fails says that
\* this fetch was rejected
BatchFound(batch, fails) ==
    IF fhTarget \in batch /\ ~fails THEN fhTarget ELSE NoHeight

\* the batch of the hint loop awaited
HintBatch ==
    {heightsToCheck[k] :
        k \in {j \in 1..Len(heightsToCheck) :
                 j > fhAt /\ j <= fhAt + searchBatchSize}}

\* the batch of the recent loop awaited (blockParser.ts:298-301)
RecentBatch ==
    {fhTip - fhAt - k :
        k \in {j \in 0..(searchBatchSize - 1) : fhTip - fhAt - j >= 0}}

\* Promise.all of a batch of the hint loop resolves
HintBatchReply(fails) ==
    /\ fhPc = "hint"
    /\ fails => fhTarget \in HintBatch
    /\ LET found == BatchFound(HintBatch, fails)
       IN  GoTo(IF Found(found) THEN Return(found)
                ELSE HintLoop(fhAt + searchBatchSize, heightsToCheck, fhTip,
                              fhElapsed))
    /\ fhFailed' = (fhFailed \/ fails)
    /\ fhBatches' = [fhBatches EXCEPT !.hint = @ + 1]
    /\ UNCHANGED <<fhTip, fhTarget, fromHeight, heightsToCheck, fhElapsed>>
    /\ UNCHANGED otherThanFind

\* Promise.all of a batch of the recent loop resolves
RecentBatchReply(fails) ==
    /\ fhPc = "recent"
    /\ fails => fhTarget \in RecentBatch
    /\ LET found == BatchFound(RecentBatch, fails)
       IN  GoTo(IF Found(found) THEN Return(found)
                ELSE RecentLoop(fhAt + searchBatchSize, fhTip, fhElapsed))
    /\ fhFailed' = (fhFailed \/ fails)
    /\ fhBatches' = [fhBatches EXCEPT !.recent = @ + 1]
    /\ UNCHANGED <<fhTip, fhTarget, fromHeight, heightsToCheck, fhElapsed>>
    /\ UNCHANGED otherThanFind

\* time passes while a batch is awaited
FindClock ==
    /\ fhPc \in {"hint", "recent"}
    /\ fhElapsed < 2
    /\ fhElapsed' = fhElapsed + 1
    /\ UNCHANGED <<fhTip, fhTarget, fromHeight, fhPc, heightsToCheck, fhAt,
                   fhFailed, fhBatches, fhResult>>
    /\ UNCHANGED otherThanFind

NextFind ==
    \/ \E ok \in BOOLEAN : FindTipReply(ok)
    \/ \E fails \in BOOLEAN : HintBatchReply(fails)
    \/ \E fails \in BOOLEAN : RecentBatchReply(fails)
    \/ FindClock

InitFind ==
    ClientInit /\ ServerIdle /\ WalletStart /\ ExplorerStart /\ LockStart
      /\ SessionStart /\ TxIdle /\ ParseIdle /\ DifficultyIdle /\ FetchIdle /\ ReuseIdle /\ VersionIdle /\ RateIdle /\ FlowIdle /\ RouteIdle /\ SpendIdle
      /\ FindStart

SpecFind == InitFind /\ [][NextFind]_vars

\* every request is answered or times out (callElectrumX settles each call)
FairSpecFind ==
    /\ SpecFind
    /\ WF_vars(\E ok \in BOOLEAN : FindTipReply(ok))
    /\ WF_vars(\E fails \in BOOLEAN : HintBatchReply(fails))
    /\ WF_vars(\E fails \in BOOLEAN : RecentBatchReply(fails))


(***************************************************************************)
(* Claims about findBlockHeightByHash.                                     *)
(***************************************************************************)

\* the block searched for is within 200 of the hint
InWindow ==
    /\ fromHeight # Undefined
    /\ fhTarget - fromHeight <= searchRange
    /\ fromHeight - fhTarget <= searchRange

\* the block searched for is one of the most recent 1000
InRecent == fhTip - fhTarget < recentLimit

\* what the call has done and returned so far is as the claim says
FindAsStated ==
    \* the result is null or the height of the block with that hash
    /\ fhResult.status = "returned"
         => \/ fhResult.height = NoHeight
            \/ /\ fhResult.height = fhTarget
               /\ 0 <= fhResult.height /\ fhResult.height <= fhTip
    \* the only error is the one of the tip request: no search was made
    /\ fhResult.status = "threw"
         => fhBatches = [hint |-> 0, recent |-> 0]
    \* batches of at most 20, the window of the hint first
    /\ fhPc = "hint" => Cardinality(HintBatch) \in 1..searchBatchSize
    /\ fhPc = "recent" => Cardinality(RecentBatch) \in 1..searchBatchSize
    /\ (fhBatches.recent > 0 \/ fhPc = "recent")
         => fhBatches.hint * searchBatchSize >= Len(heightsToCheck)
    /\ fromHeight # Undefined /\ fhBatches.hint > 0
         => LET checked == {heightsToCheck[k] :
                               k \in 1..Len(heightsToCheck)}
            IN  \A h \in (fromHeight - searchRange)..(fromHeight + searchRange) :
                  (0 <= h /\ h <= fhTip) => h \in checked
    \* a block in one of the ranges is found
    /\ ( /\ fhResult.status = "returned"
         /\ fhTarget # NoHeight
         /\ InWindow \/ InRecent
         /\ ~fhFailed
         /\ fhElapsed = 0 )
         => fhResult.height = fhTarget

WssScheme == <<"w", "s", "s", ":", "/", "/">>
WsScheme == <<"w", "s", ":", "/", "/">>

\* URLs given to connect() and returned by getServerUrl()
UrlStrings ==
    {<<>>,
     WssScheme \o <<"a">>,
     WsScheme \o <<"a">>,
     <<"w", "s", "s", ":", "a">>,
     <<"h", "t", "t", "p", "s", ":", "/", "/", "a">>,
     <<"a", ":", "5", "0">>}

\* String.prototype.startsWith
StartsWith(s, prefix) ==
    /\ Len(s) >= Len(prefix)
    /\ SubSeq(s, 1, Len(prefix)) = prefix

\* a promise settled by kind: the response to call of, the timer of call
\* of, or the close event / disconnect of socket of
By(kind, of) == [kind |-> kind, of |-> of]

NotSettled == By("none", 0)

\* calls of cs that are pending and have an entry in p get st
RejectPending(cs, p, by) ==
    [c \in 1..Len(cs) |->
        IF cs[c].st = "pending" /\ (\E e \in p : e[2] = c)
        THEN [cs[c] EXCEPT !.st = "rejected", !.by = by]
        ELSE cs[c]]

\* transaction.ts:218-220 accepts the URL
ConnectAccepts(url) == StartsWith(url, WssScheme)

\* connect(url)
RcConnect(url) ==
    IF ~ConnectAccepts(url)
    THEN /\ rcThrew' = TRUE
         /\ UNCHANGED <<rcUrl, rcSocks, rcWs, rcId, rcPending, rcSubs,
                        rcCalls, rcNotified, envUrl, esCall>>
         /\ UNCHANGED otherThanReuse
    ELSE /\ Len(rcSocks) < MaxSocks
         /\ rcThrew' = FALSE
         /\ rcUrl' = url
         /\ rcId' = 0
         /\ rcPending' = {}
         /\ rcSubs' = 0
         /\ rcSocks' = Append(rcSocks, [url |-> url, st |-> "CONNECTING",
                                        promise |-> "pending"])
         /\ rcWs' = Len(rcSocks) + 1
         /\ UNCHANGED <<rcCalls, rcNotified, envUrl, esCall>>
         /\ UNCHANGED otherThanReuse

\* 'open' event of socket s: the promise of its connect() resolves
RcOpen(s) ==
    /\ s \in DOMAIN rcSocks
    /\ rcSocks[s].st = "CONNECTING"
    /\ rcSocks' = [rcSocks EXCEPT ![s].st = "OPEN", ![s].promise = "resolved"]
    /\ UNCHANGED <<rcUrl, rcWs, rcId, rcPending, rcSubs, rcCalls, rcThrew,
                   rcNotified, envUrl, esCall>>
    /\ UNCHANGED otherThanReuse

\* socket s fails or is closed by the peer, or its closing handshake ends:
\* 'error' (while connecting) and 'close' events; the close listener runs
\* reset()
RcClose(s) ==
    /\ s \in DOMAIN rcSocks
    /\ rcSocks[s].st # "CLOSED"
    /\ rcSocks' = [rcSocks EXCEPT
                     ![s].st = "CLOSED",
                     ![s].promise = IF @ = "pending" THEN "rejected" ELSE @]
    /\ rcCalls' = RejectPending(rcCalls, rcPending, By("close", s))
    /\ rcPending' = {}
    /\ rcSubs' = 0
    /\ UNCHANGED <<rcUrl, rcWs, rcId, rcThrew, rcNotified, envUrl, esCall>>
    /\ UNCHANGED otherThanReuse

\* disconnect()
RcDisconnect ==
    /\ rcWs # 0
    /\ rcSocks[rcWs].st \in {"CONNECTING", "OPEN"}
    /\ rcSocks' = [rcSocks EXCEPT ![rcWs].st = "CLOSING"]
    /\ rcCalls' = RejectPending(rcCalls, rcPending, By("close", rcWs))
    /\ rcPending' = {}
    /\ rcSubs' = 0
    /\ UNCHANGED <<rcUrl, rcWs, rcId, rcThrew, rcNotified, envUrl, esCall>>
    /\ UNCHANGED otherThanReuse

\* transaction.ts:325-326: this.subscriptions.set(
\* 'blockchain.scripthash.subscribe', handler); subs holds the scripthash
\* whose handler is registered under that key
SubscribeKey(subs, scripthash) == scripthash

\* send(method, params) for sub = 0, subscribeScripthash(sub, handler of
\* sub) otherwise
RcSend(sub) ==
    /\ Len(rcCalls) < MaxSends
    /\ rcSubs' = IF sub # 0 THEN SubscribeKey(rcSubs, sub) ELSE rcSubs
    /\ IF rcWs = 0 \/ rcSocks[rcWs].st # "OPEN"
       THEN /\ rcCalls' = Append(rcCalls,
                [id |-> 0, sock |-> 0, sub |-> sub, st |-> "rejected",
                 by |-> By("not connected", 0), timer |-> FALSE,
                 answered |-> FALSE])
            /\ UNCHANGED <<rcId, rcPending>>
       ELSE /\ rcId' = rcId + 1
            /\ rcCalls' = Append(rcCalls,
                [id |-> rcId', sock |-> rcWs, sub |-> sub, st |-> "pending",
                 by |-> NotSettled, timer |-> TRUE, answered |-> FALSE])
            /\ rcPending' = {e \in rcPending : e[1] # rcId'}
                              \cup {<<rcId', Len(rcCalls) + 1>>}
    /\ UNCHANGED <<rcUrl, rcSocks, rcWs, rcThrew, rcNotified, envUrl, esCall>>
    /\ UNCHANGED otherThanReuse

\* the peer answers call c on the socket the call was sent over: onMessage
\* with payload.id = the id of c
RcResponse(c) ==
    /\ c \in DOMAIN rcCalls
    /\ rcCalls[c].sock # 0
    /\ rcSocks[rcCalls[c].sock].st \in {"OPEN", "CLOSING"}
    /\ ~rcCalls[c].answered
    /\ LET entries == {e \in rcPending : e[1] = rcCalls[c].id}
           answered == [rcCalls EXCEPT ![c].answered = TRUE]
       IN  /\ rcPending' = rcPending \ entries
           /\ rcCalls' =
                [d \in 1..Len(rcCalls) |->
                    IF (\E e \in entries : e[2] = d)
                         /\ answered[d].st = "pending"
                    THEN [answered[d] EXCEPT !.st = "resolved",
                                             !.by = By("response", c)]
                    ELSE answered[d]]
    /\ UNCHANGED <<rcUrl, rcSocks, rcWs, rcId, rcSubs, rcThrew, rcNotified,
                   envUrl, esCall>>
    /\ UNCHANGED otherThanReuse

\* the peer of socket s, on which scripthash sh was subscribed, sends a
\* change notification for sh: onMessage with payload.method =
\* 'blockchain.scripthash.subscribe' and payload.params = [sh, status]
RcNotify(s, sh) ==
    /\ s \in DOMAIN rcSocks
    /\ rcSocks[s].st = "OPEN"
    /\ \E c \in DOMAIN rcCalls : rcCalls[c].sock = s /\ rcCalls[c].sub = sh
    /\ rcSubs # 0
    /\ rcNotified' = [scripthash |-> sh, handler |-> rcSubs]
    /\ UNCHANGED <<rcUrl, rcSocks, rcWs, rcId, rcPending, rcSubs, rcCalls,
                   rcThrew, envUrl, esCall>>
    /\ UNCHANGED otherThanReuse

\* the 12 s timer of call c fires (transaction.ts:279-284)
RcTimeout(c) ==
    /\ c \in DOMAIN rcCalls
    /\ rcCalls[c].timer
    /\ LET entries == {e \in rcPending : e[1] = rcCalls[c].id}
           fired == [rcCalls EXCEPT ![c].timer = FALSE]
       IN  /\ rcPending' = rcPending \ entries
           /\ rcCalls' =
                IF entries # {} /\ fired[c].st = "pending"
                THEN [fired EXCEPT ![c].st = "rejected",
                                   ![c].by = By("timeout", c)]
                ELSE fired
    /\ UNCHANGED <<rcUrl, rcSocks, rcWs, rcId, rcSubs, rcThrew, rcNotified,
                   envUrl, esCall>>
    /\ UNCHANGED otherThanReuse

\* electrumServer.ts:89 accepts the URL
CallAccepts(url) == StartsWith(url, WssScheme) \/ StartsWith(url, WsScheme)

\* ElectrumServerClient.call(network, method, params) up to the creation of
\* the WebSocket by callWebSocket / callWebSocketOneTime
EsCall ==
    /\ esCall = "none"
    /\ esCall' = IF envUrl = <<>> THEN "threw"
                 ELSE IF CallAccepts(envUrl) THEN "connecting"
                 ELSE "threw"
    /\ UNCHANGED <<rcUrl, rcSocks, rcWs, rcId, rcPending, rcSubs, rcCalls,
                   rcThrew, rcNotified, envUrl>>
    /\ UNCHANGED otherThanReuse

\* 'open' event of the server-side socket: the request is sent
EsOpen ==
    /\ esCall = "connecting"
    /\ esCall' = "sent"
    /\ UNCHANGED <<rcUrl, rcSocks, rcWs, rcId, rcPending, rcSubs, rcCalls,
                   rcThrew, rcNotified, envUrl>>
    /\ UNCHANGED otherThanReuse

\* the connect(), send() and response steps of the client and the call of
\* the server-side client
NextEndpoint ==
    \/ \E url \in UrlStrings : RcConnect(url)
    \/ \E s \in 1..MaxSocks : RcOpen(s)
    \/ RcSend(0)
    \/ \E c \in 1..MaxSends : RcResponse(c)
    \/ EsCall
    \/ EsOpen

InitEndpoint ==
    ClientInit /\ ServerIdle /\ WalletStart /\ ExplorerStart /\ LockStart
      /\ SessionStart /\ TxIdle /\ ParseIdle /\ DifficultyIdle /\ FetchIdle /\ VersionIdle /\ RateIdle /\ FlowIdle /\ RouteIdle /\ SpendIdle
      /\ FindIdle /\ ReuseStart /\ envUrl \in UrlStrings

SpecEndpoint == InitEndpoint /\ [][NextEndpoint]_vars

\* one client, used across connections
NextReuse ==
    \/ RcConnect(WssScheme \o <<"a">>)
    \/ \E s \in 1..MaxSocks : RcOpen(s)
    \/ \E s \in 1..MaxSocks : RcClose(s)
    \/ RcDisconnect
    \/ \E sub \in 0..NScripthashes : RcSend(sub)
    \/ \E c \in 1..MaxSends : RcResponse(c)
    \/ \E s \in 1..MaxSocks, sh \in 1..NScripthashes : RcNotify(s, sh)
    \/ \E c \in 1..MaxSends : RcTimeout(c)

InitReuse ==
    ClientInit /\ ServerIdle /\ WalletStart /\ ExplorerStart /\ LockStart
      /\ SessionStart /\ TxIdle /\ ParseIdle /\ DifficultyIdle /\ FetchIdle /\ VersionIdle /\ RateIdle /\ FlowIdle /\ RouteIdle /\ SpendIdle
      /\ FindIdle /\ ReuseIdle

SpecReuse == InitReuse /\ [][NextReuse]_vars


(***************************************************************************)
(* Claims about the endpoints the clients accept.                          *)
(***************************************************************************)

\* what connect() may change of the client
ClientState == <<rcUrl, rcSocks, rcWs, rcId, rcPending, rcSubs, rcCalls>>

\* a connect(url) with a URL that is not wss://
RejectedConnect == \E url \in UrlStrings : ~ConnectAccepts(url) /\ RcConnect(url)

\* every socket of the browser-side client is a wss:// one
ClientEncryptedOnly ==
    \A s \in DOMAIN rcSocks : StartsWith(rcSocks[s].url, WssScheme)

\* the server-side client opens a socket, and sends, over wss:// only
ServerEncryptedOnly ==
    esCall \in {"connecting", "sent"} => StartsWith(envUrl, WssScheme)

\* C24: connect(url) with a URL that is not wss:// fails before a socket is
\* opened and leaves the client as it was, and neither the browser-side nor
\* the server-side client ever opens a socket or sends a request over an
\* endpoint that is not wss://.
C24_EncryptedEndpointsOnly ==
    /\ [](ClientEncryptedOnly /\ ServerEncryptedOnly)
    /\ [][RejectedConnect => UNCHANGED ClientState]_vars

\* the browser-side half of C24
ClientHalfOfC24 ==
    /\ [](ClientEncryptedOnly)
    /\ [][RejectedConnect => UNCHANGED ClientState]_vars


(***************************************************************************)
(* Claims about a client that is connected again.                          *)
(***************************************************************************)

\* connect() succeeded on socket s
ConnectSucceeded(s) == rcSocks[s].promise = "resolved"

\* call c was sent before the connect() that created socket s
Stale(c, s) == rcCalls[c].sock # 0 /\ rcCalls[c].sock < s

\* the calls sent over one socket are numbered 1, 2, ...
IdsRestart ==
    \A c \in DOMAIN rcCalls :
        rcCalls[c].sock # 0
          => rcCalls[c].id =
               Cardinality({d \in 1..c : rcCalls[d].sock = rcCalls[c].sock})

\* no call sent before a connect() that succeeded is still pending
StaleSettled ==
    \A s \in DOMAIN rcSocks, c \in DOMAIN rcCalls :
        (ConnectSucceeded(s) /\ Stale(c, s)) => rcCalls[c].st # "pending"

\* a call is settled by its own response, by its own timer, or by the
\* closing of the socket it was sent over
SettledByItsOwn ==
    \A c \in DOMAIN rcCalls :
        /\ rcCalls[c].by.kind \in {"response", "timeout"}
             => rcCalls[c].by.of = c
        /\ rcCalls[c].by.kind = "close"
             => rcCalls[c].by.of = rcCalls[c].sock

\* C26: after connect() succeeds the ids restart at 1, no request sent
\* before that connect is still pending, and no response, close event or
\* timeout of an earlier request or socket settles a later call.
C26_ConnectResetsRequests ==
    /\ IdsRestart
    /\ StaleSettled
    /\ SettledByItsOwn

\* C27: a change notification for a scripthash invokes the handler that was
\* registered with that scripthash, also after another scripthash was
\* subscribed.
C27_HandlerPerScripthash ==
    rcNotified # NoNotification
      => rcNotified.handler = rcNotified.scripthash


(***************************************************************************)
(* The protocol check of connect() (src/context/WalletContext.tsx:642-646, *)
(* src/hooks/useElectrumExplorer.ts:98-103): each server answers           *)
(* server.version with its protocol version, and an attempt whose server   *)
(* fails the check ends as a failed attempt does.                          *)
(***************************************************************************)

DigitChars == <<"0", "1", "2", "3", "4", "5", "6", "7", "8", "9">>

IsDigit(ch) == \E d \in 1..10 : DigitChars[d] = ch

DigitValue(ch) == (CHOOSE d \in 1..10 : DigitChars[d] = ch) - 1

\* the decimal digits of n < 100
NumberString(n) ==
    IF n < 10 THEN <<DigitChars[n + 1]>>
    ELSE <<DigitChars[(n \div 10) + 1], DigitChars[(n % 10) + 1]>>

RECURSIVE Dotted(_)
\* the numbers of v separated by dots
Dotted(v) ==
    IF Len(v) = 1 THEN NumberString(v[1])
    ELSE NumberString(v[1]) \o <<".">> \o Dotted(Tail(v))

\* version[1] of the reply of a server with protocol version v
ProtocolString(v) ==
    IF v = <<>> THEN <<"n", "o", "n", "e">> ELSE Dotted(v)

RECURSIVE ScanDigits(_, _, _, _)
\* the digits of s from position i on: their value, their number and the
\* position after them
ScanDigits(s, i, val, count) ==
    IF i <= Len(s) /\ IsDigit(s[i])
    THEN ScanDigits(s, i + 1, val * 10 + DigitValue(s[i]), count + 1)
    ELSE [val |-> val, count |-> count, next |-> i]

RECURSIVE Pow10(_)
Pow10(k) == IF k = 0 THEN 1 ELSE 10 * Pow10(k - 1)

\* parseFloat(s) for a string of digits, dots and letters: the longest
\* prefix digits[.digits] as the fraction num / den, NaN when it has no digit
parseFloat(s) ==
    LET int == ScanDigits(s, 1, 0, 0)
        hasDot == int.next <= Len(s) /\ s[int.next] = "."
        frac == IF hasDot THEN ScanDigits(s, int.next + 1, 0, 0)
                ELSE [val |-> 0, count |-> 0, next |-> int.next]
    IN  IF int.count = 0 /\ frac.count = 0
        THEN [nan |-> TRUE, num |-> 0, den |-> 1]
        ELSE [nan |-> FALSE,
              num |-> int.val * Pow10(frac.count) + frac.val,
              den |-> Pow10(frac.count)]

\* protocol < 1.4 alone
ProtocolBelowOnly(version1) ==
    LET protocol == parseFloat(version1)
    IN  ~protocol.nan /\ protocol.num * 10 < 14 * protocol.den

\* WalletContext.tsx:644: Number.isNaN(protocol) || protocol < 1.4
ProtocolTooOld(version1) ==
    LET protocol == parseFloat(version1)
    IN  protocol.nan \/ protocol.num * 10 < 14 * protocol.den

\* the server the attempt of connect invocation p of the wallet is on
WServerOf(p) == ServerIndex(wProcs[p].start, wProcs[p].i)

\* the server the attempt of connect invocation p of the explorer is on
EServerOf(p) == ServerIndex(eProcs[p].start, eProcs[p].i)

\* the server.version reply of the wallet's attempt fails the check: throw,
\* catch, client.disconnect(), next server
WalletHandshakeOld(p) ==
    /\ page = "wallet"
    /\ p \in DOMAIN wProcs
    /\ wProcs[p].phase = "handshake"
    /\ ProtocolTooOld(ProtocolString(serverProtocols[WServerOf(p)]))
    /\ WAttemptFail(p)

\* the reply passes the check, and so do relayFee and estimateFee
WalletHandshakeOk(p) ==
    /\ page = "wallet"
    /\ p \in DOMAIN wProcs
    /\ wProcs[p].phase = "handshake"
    /\ ~ProtocolTooOld(ProtocolString(serverProtocols[WServerOf(p)]))
    /\ WAttemptOk(p)

\* the attempt fails for another reason
WalletAttemptFails(p) == page = "wallet" /\ WAttemptFail(p)

WalletConnects == page = "wallet" /\ WConnect

WalletSubscribeOk(p) == page = "wallet" /\ WSubscribeOk(p)

WalletSubscribeFails(p) == page = "wallet" /\ WSubscribeFail(p)

WalletClientDies(k) == page = "wallet" /\ WClientDies(k)

WalletHealthCheck(k) == page = "wallet" /\ WHealthCheck(k)

WalletReconnects == page = "wallet" /\ WReconnect

\* the server.version reply of the explorer's attempt fails the check
ExplorerHandshakeOld(p) ==
    /\ page = "explorer"
    /\ p \in DOMAIN eProcs
    /\ ProtocolTooOld(ProtocolString(serverProtocols[EServerOf(p)]))
    /\ EAttemptFail(p)

\* the reply passes the check
ExplorerHandshakeOk(p) ==
    /\ page = "explorer"
    /\ p \in DOMAIN eProcs
    /\ ~ProtocolTooOld(ProtocolString(serverProtocols[EServerOf(p)]))
    /\ EAttemptOk(p)

ExplorerAttemptFails(p) == page = "explorer" /\ EAttemptFail(p)

ExplorerConnects == page = "explorer" /\ EConnect

ExplorerReconnects == page = "explorer" /\ EReconnect

ExplorerClientDies(k) == page = "explorer" /\ EClientDies(k)

ExplorerHealthCheck(k) == page = "explorer" /\ EHealthCheck(k)

ExplorerReconnectTimer == page = "explorer" /\ EReconnectTimer

NextVersion ==
    \/ WalletConnects
    \/ \E p \in 1..(MaxProcs + 1) : WalletAttemptFails(p)
    \/ \E p \in 1..(MaxProcs + 1) : WalletHandshakeOld(p)
    \/ \E p \in 1..(MaxProcs + 1) : WalletHandshakeOk(p)
    \/ \E p \in 1..(MaxProcs + 1) : WalletSubscribeOk(p)
    \/ \E p \in 1..(MaxProcs + 1) : WalletSubscribeFails(p)
    \/ \E k \in 1..MaxClients : WalletClientDies(k)
    \/ \E k \in 1..MaxClients : WalletHealthCheck(k)
    \/ WalletReconnects
    \/ ExplorerConnects
    \/ ExplorerReconnects
    \/ \E p \in 1..MaxProcs : ExplorerAttemptFails(p)
    \/ \E p \in 1..MaxProcs : ExplorerHandshakeOld(p)
    \/ \E p \in 1..MaxProcs : ExplorerHandshakeOk(p)
    \/ \E k \in 1..MaxConnects : ExplorerClientDies(k)
    \/ \E k \in 1..MaxConnects : ExplorerHealthCheck(k)
    \/ ExplorerReconnectTimer

InitVersion ==
    ClientInit /\ ServerIdle /\ WalletStart /\ ExplorerStart /\ LockStart
      /\ SessionStart /\ TxIdle /\ ParseIdle /\ DifficultyIdle /\ FetchIdle /\ RateIdle /\ FlowIdle /\ RouteIdle /\ SpendIdle
      /\ FindIdle /\ ReuseIdle
      /\ serverProtocols \in [Servers -> Protocols]
      /\ page \in {"wallet", "explorer"}

SpecVersion == InitVersion /\ [][NextVersion]_vars

(***************************************************************************)
(* Claims about the protocol check.                                        *)
(***************************************************************************)

\* the server reports a protocol version below 1.4, or none
Below14(v) == v = <<>> \/ v[1] < 1 \/ (v[1] = 1 /\ v[2] < 4)

\* no client of an old server is kept, and the status is ready on none
NoOldServerInstalled ==
    /\ \A k \in 1..MaxClients :
         wClients[k].used => ~Below14(serverProtocols[wClients[k].server])
    /\ \A k \in DOMAIN eClients :
         ~Below14(serverProtocols[eClients[k].server])
    /\ (page = "wallet" /\ wStatus = "ready")
         => ~Below14(serverProtocols[currentServerIndex])
    /\ (page = "explorer" /\ eConnected)
         => ~Below14(serverProtocols[currentServerIndexRef])

\* an attempt of the wallet on an old server gets its reply
WalletOldReply(p) ==
    /\ p \in DOMAIN wProcs
    /\ wProcs[p].phase = "handshake"
    /\ Below14(serverProtocols[WServerOf(p)])
    /\ WalletHandshakeOld(p) \/ WalletHandshakeOk(p)

\* the wallet's connect goes on with the next server, or gives up with the
\* error status after the last one
WalletFailsOver(p) ==
    \/ /\ wProcs[p].i + 1 < NServers
       /\ Len(wProcs') = Len(wProcs)
       /\ wProcs'[p].phase = "handshake"
       /\ WServerOf(p)' = (WServerOf(p) + 1) % NServers
       /\ UNCHANGED <<electrumRef, wStatus>>
    \/ /\ wProcs[p].i + 1 = NServers
       /\ Len(wProcs') = Len(wProcs) - 1
       /\ wStatus' = "error"
       /\ UNCHANGED electrumRef

\* an attempt of the explorer on an old server gets its reply
ExplorerOldReply(p) ==
    /\ p \in DOMAIN eProcs
    /\ Below14(serverProtocols[EServerOf(p)])
    /\ ExplorerHandshakeOld(p) \/ ExplorerHandshakeOk(p)

\* the explorer's connect goes on with the next server, or gives up with
\* an error after the last one
ExplorerFailsOver(p) ==
    \/ /\ eProcs[p].i + 1 < NServers
       /\ Len(eProcs') = Len(eProcs)
       /\ EServerOf(p)' = (EServerOf(p) + 1) % NServers
       /\ clientRef' = 0
       /\ UNCHANGED eConnected
    \/ /\ eProcs[p].i + 1 = NServers
       /\ Len(eProcs') = Len(eProcs) - 1
       /\ eError' = "failed"
       /\ ~eConnected'

\* C25: a server whose server.version reply reports a protocol below 1.4,
\* or none that can be parsed, never becomes the active client and the
\* status is never ready on it; the attempt ends as a failed attempt: the
\* loop goes on with the next server, or ends in the error state.
C25_OldServerNeverInstalled ==
    /\ [](NoOldServerInstalled)
    /\ [][\A p \in 1..(MaxProcs + 1) :
            /\ WalletOldReply(p) => WalletFailsOver(p)
            /\ ExplorerOldReply(p) => ExplorerFailsOver(p)]_vars

\* the wallet is ready on server 1, which reports 1.4.2, after server 0,
\* which reports 1.3.9, was tried first
C25_Witness ==
    /\ page = "wallet"
    /\ serverProtocols[0] = <<1, 3, 9>>
    /\ serverProtocols[1] = <<1, 4, 2>>
    /\ wStatus = "ready"
    /\ electrumRef # 0
    /\ wClients[electrumRef].server = 1


(***************************************************************************)
(* useElectrumExplorer when its network option changes: getServers and     *)
(* connect are new functions, so the cleanup of the mount effect runs,     *)
(* then the mount effect and the network effect of the new render          *)
(* (src/hooks/useElectrumExplorer.ts:188-219).  Both networks have         *)
(* NServers servers configured.                                            *)
(***************************************************************************)
Networks == {"mainnet", "testnet"}

\* the cleanup clears the reconnect timer, stops the health check of
\* clientRef.current, disconnects it and sets clientRef.current to null;
\* the mount effect calls connect(false), which returns at once while
\* isReconnectingRef.current; the network effect finds clientRef.current
\* null and does nothing.  The hook is mounted: its mount effect has run.
ENetworkChange(n) ==
    /\ n # network
    /\ eConnects > 0
    /\ eConnects < MaxConnects
    /\ Len(eProcs) < MaxProcs
    /\ network' = n
    /\ eConnects' = eConnects + 1
    /\ eTimer' = FALSE
    /\ eClients' = IF clientRef # 0
                   THEN [eClients EXCEPT ![clientRef].connected = FALSE,
                                         ![clientRef].interval = FALSE]
                   ELSE eClients
    /\ clientRef' = 0
    /\ IF eIsReconnecting
       THEN UNCHANGED <<eConnecting, eError, eProcs>>
       ELSE /\ eConnecting' = TRUE
            /\ eError' = "none"
            /\ eProcs' = Append(eProcs,
                                [start |-> StartIndex(currentServerIndexRef,
                                                      FALSE),
                                 i |-> 0, auto |-> FALSE, net |-> n])
    /\ UNCHANGED <<eConnected, eIsReconnecting, currentServerIndexRef>>
    /\ UNCHANGED otherThanExplorer

NextNetwork ==
    \/ EConnect
    \/ EReconnect
    \/ \E p \in 1..MaxProcs : EAttemptFail(p)
    \/ \E p \in 1..MaxProcs : EAttemptOk(p)
    \/ \E k \in 1..MaxConnects : EClientDies(k)
    \/ \E k \in 1..MaxConnects : EHealthCheck(k)
    \/ EReconnectTimer
    \/ \E n \in Networks : ENetworkChange(n)

SpecNetwork == InitExplorer /\ [][NextNetwork]_vars

\* timers fire and every connection attempt ends (it succeeds, fails or
\* times out); nothing is assumed about what the page's user does
FairSpecNetwork ==
    /\ SpecNetwork
    /\ WF_vars(EReconnectTimer)
    /\ \A k \in 1..MaxConnects : WF_vars(EHealthCheck(k))
    /\ \A p \in 1..MaxProcs : WF_vars(EAttemptFail(p) \/ EAttemptOk(p))

(***************************************************************************)
(* Claims about the change of network.                                     *)
(***************************************************************************)

\* the explorer is connected through a client of a server of network n
OnNetwork(n) ==
    /\ eConnected
    /\ clientRef # 0
    /\ eClients[clientRef].connected
    /\ eClients[clientRef].net = n

\* the change of network closes the connection of the current client
PreviousClosed ==
    (network' # network /\ clientRef # 0)
        => (clientRef' = 0 /\ ~eClients'[clientRef].connected)

\* the network is testnet and no connection to a testnet server has been
\* made yet
JustChanged ==
    /\ network = "testnet"
    /\ \A k \in DOMAIN eClients : eClients[k].net # "testnet"

\* C28: after the network is changed (to testnet, from the mainnet the
\* page starts with), the previous connection is closed and the explorer
\* eventually is connected to a server of the new network, or in the error
\* state (or the network is changed back first).
C28_NetworkChangeReconnects ==
    /\ [][PreviousClosed]_vars
    /\ JustChanged ~> (OnNetwork("testnet") \/ ExplorerStatus = "error"
                         \/ network # "testnet")


(***************************************************************************)
(* rateLimit (src/unnamed/part_003) in production mode.  Time is counted   *)
(* in units of 20 s.  An ip the map has no entry for has NoRecord.         *)
(***************************************************************************)
RateStart ==
    /\ requestCounts = [ip \in Ips |-> NoRecord]
    /\ rNow = 0
    /\ maxRequests \in 1..MaxRequests
    /\ nextCleanup \in 1..cleanupMs
    /\ rGranted = [ip \in Ips |-> [t \in 1..windowMs |-> 0]]
    /\ rLast = NoResult

\* the result of rateLimit for a request of ip, and the record it leaves
RateLimitOf(record, at) ==
    IF record = NoRecord \/ at > record.resetTime
    THEN [success |-> TRUE, remaining |-> maxRequests - 1,
          record |-> [count |-> 1, resetTime |-> at + windowMs]]
    ELSE IF record.count >= maxRequests
    THEN [success |-> FALSE, remaining |-> 0, record |-> record]
    ELSE [success |-> TRUE, remaining |-> maxRequests - (record.count + 1),
          record |-> [record EXCEPT !.count = @ + 1]]

\* rateLimit(req) for a request whose first x-forwarded-for address is ip
RateLimit(ip) ==
    LET r == RateLimitOf(requestCounts[ip], rNow)
    IN  /\ requestCounts' = [requestCounts EXCEPT ![ip] = r.record]
        /\ rLast' = [ip |-> ip, success |-> r.success,
                     remaining |-> r.remaining]
        /\ rGranted' = IF r.success
                       THEN [rGranted EXCEPT ![ip][1] = @ + 1]
                       ELSE rGranted
        /\ UNCHANGED <<rNow, maxRequests, nextCleanup>>
        /\ UNCHANGED otherThanRate

\* the cleanup interval fires: every entry whose window is over is deleted
RateCleanup ==
    /\ rNow = nextCleanup
    /\ nextCleanup' = nextCleanup + cleanupMs
    /\ requestCounts' =
           [ip \in Ips |->
               IF requestCounts[ip] # NoRecord
                  /\ rNow > requestCounts[ip].resetTime
               THEN NoRecord ELSE requestCounts[ip]]
    /\ UNCHANGED <<rNow, maxRequests, rGranted, rLast>>
    /\ UNCHANGED otherThanRate

\* time passes, the cleanup interval not skipped
RateTick ==
    /\ rNow < MaxRateTime
    /\ rNow # nextCleanup
    /\ rNow' = rNow + 1
    /\ rGranted' = [ip \in Ips |->
                       [t \in 1..windowMs |->
                           IF t = 1 THEN 0 ELSE rGranted[ip][t - 1]]]
    /\ UNCHANGED <<requestCounts, maxRequests, nextCleanup, rLast>>
    /\ UNCHANGED otherThanRate

NextRate ==
    \/ \E ip \in Ips : RateLimit(ip)
    \/ RateCleanup
    \/ RateTick

InitRate ==
    ClientInit /\ ServerIdle /\ WalletStart /\ ExplorerStart /\ LockStart
      /\ SessionStart /\ TxIdle /\ ParseIdle /\ DifficultyIdle /\ FetchIdle /\ FlowIdle /\ RouteIdle /\ SpendIdle
      /\ FindIdle /\ ReuseIdle /\ VersionIdle /\ RateStart

SpecRate == InitRate /\ [][NextRate]_vars

(***************************************************************************)
(* Claims about the rate limiter.                                          *)
(***************************************************************************)
RECURSIVE GrantedIn(_, _)
\* the requests of ip granted within the last k units of time
GrantedIn(ip, k) ==
    IF k = 0 THEN 0 ELSE rGranted[ip][k] + GrantedIn(ip, k - 1)

\* at most maxRequests requests of an ip succeed within windowMs
AnyWindowLimited ==
    \A ip \in Ips : GrantedIn(ip, windowMs) <= maxRequests

\* the remaining count is never negative, and 0 with a refusal
RemainingSound ==
    /\ rLast.remaining >= 0
    /\ ~rLast.success => rLast.remaining = 0

\* C29: for each ip at most maxRequests requests succeed within any
\* interval of the window's length, each further request in the interval
\* gets success = false with remaining 0, and remaining is never negative.
C29_RateLimited ==
    AnyWindowLimited /\ RemainingSound


(***************************************************************************)
(* The wallet creation and import flows: the handlers of WalletProvider    *)
(* (src/context/WalletContext.tsx) as the buttons of WalletOverlay         *)
(* (src/components/WalletOverlay.tsx) call them.  initWallet and           *)
(* importFromPrivateKey succeed.  The mnemonic of the k-th                 *)
(* generateMnemonic() call is k.                                           *)
(***************************************************************************)

\* 'Create New Wallet', shown at stage idle
createNewWallet ==
    /\ flowStage = "idle"
    /\ flowStage' = "password-creation"
    /\ lastOp' = "createNewWallet"
    /\ UNCHANGED <<importType, pendingMnemonic, pendingPassword, flowLocked,
                   generated>>
    /\ UNCHANGED otherThanFlow

\* 'Import Wallet', shown at stage idle
importWallet ==
    /\ flowStage = "idle"
    /\ flowStage' = "import-method"
    /\ lastOp' = "importWallet"
    /\ UNCHANGED <<importType, pendingMnemonic, pendingPassword, flowLocked,
                   generated>>
    /\ UNCHANGED otherThanFlow

\* onSelectMnemonic of the import method view
importFromMnemonic ==
    /\ flowStage = "import-method"
    /\ importType' = "mnemonic"
    /\ flowStage' = "password-creation"
    /\ lastOp' = "importFromMnemonic"
    /\ UNCHANGED <<pendingMnemonic, pendingPassword, flowLocked, generated>>
    /\ UNCHANGED otherThanFlow

\* onSelectPrivateKey of the import method view
SelectPrivateKey ==
    /\ flowStage = "import-method"
    /\ importType' = "private-key"
    /\ pendingMnemonic' = 0
    /\ flowStage' = "password-creation"
    /\ lastOp' = "onSelectPrivateKey"
    /\ UNCHANGED <<pendingPassword, flowLocked, generated>>
    /\ UNCHANGED otherThanFlow

\* the stage confirmPassword goes to
StageAfterPassword ==
    IF importType = "mnemonic" THEN "mnemonic-input"
    ELSE IF importType = "private-key" THEN "private-key-import"
    ELSE "mnemonic-display"


\* confirmPassword(p), called by the password creation view
confirmPassword(p) ==
    /\ flowStage = "password-creation"
    /\ (importType = "null" /\ pendingMnemonic = 0) => generated < MaxMnemonics
    /\ pendingPassword' = p
    /\ flowStage' = StageAfterPassword
    /\ IF importType = "null" /\ pendingMnemonic = 0
       THEN /\ generated' = generated + 1
            /\ pendingMnemonic' = generated + 1
       ELSE UNCHANGED <<generated, pendingMnemonic>>
    /\ lastOp' = "confirmPassword"
    /\ UNCHANGED <<importType, flowLocked>>
    /\ UNCHANGED otherThanFlow

\* goBack(), called by the back buttons of the stages before ready
goBack ==
    /\ flowStage \in {"mnemonic-display", "mnemonic-input",
                      "private-key-import", "password-creation",
                      "import-method"}
    /\ IF flowStage \in {"mnemonic-display", "mnemonic-input",
                         "private-key-import"}
       THEN /\ flowStage' = "password-creation"
            /\ UNCHANGED <<importType, pendingMnemonic, pendingPassword>>
       ELSE IF flowStage = "password-creation"
       THEN IF importType # "null"
            THEN /\ flowStage' = "import-method"
                 /\ UNCHANGED <<importType, pendingMnemonic, pendingPassword>>
            ELSE /\ flowStage' = "idle"
                 /\ pendingPassword' = 0
                 /\ pendingMnemonic' = 0
                 /\ UNCHANGED importType
       ELSE /\ flowStage' = "idle"
            /\ importType' = "null"
            /\ UNCHANGED <<pendingMnemonic, pendingPassword>>
    /\ lastOp' = "goBack"
    /\ UNCHANGED <<flowLocked, generated>>
    /\ UNCHANGED otherThanFlow

\* initWallet(mnemonic, password) succeeds
InitWalletDone ==
    /\ flowStage' = "ready"
    /\ pendingPassword' = 0
    /\ pendingMnemonic' = 0
    /\ flowLocked' = FALSE
    /\ UNCHANGED <<importType, generated>>

\* confirmMnemonic(), called by the mnemonic display view
confirmMnemonic ==
    /\ flowStage = "mnemonic-display"
    /\ pendingMnemonic # 0
    /\ pendingPassword # 0
    /\ InitWalletDone
    /\ lastOp' = "confirmMnemonic"
    /\ UNCHANGED otherThanFlow

\* importMnemonicWithPassword(mnemonic, pendingPassword) with 12 words
importMnemonicWithPassword ==
    /\ flowStage = "mnemonic-input"
    /\ pendingPassword # 0
    /\ InitWalletDone
    /\ lastOp' = "importMnemonicWithPassword"
    /\ UNCHANGED otherThanFlow

\* importFromPrivateKey(privateKey, password) with a valid key
importFromPrivateKey ==
    /\ flowStage = "private-key-import"
    /\ pendingPassword # 0
    /\ InitWalletDone
    /\ lastOp' = "importFromPrivateKey"
    /\ UNCHANGED otherThanFlow

\* lockWallet(), by the lock button or the inactivity timeout
lockWallet ==
    /\ flowStage = "ready"
    /\ ~flowLocked
    /\ flowLocked' = TRUE
    /\ lastOp' = "lockWallet"
    /\ UNCHANGED <<flowStage, importType, pendingMnemonic, pendingPassword,
                   generated>>
    /\ UNCHANGED otherThanFlow

\* unlockWallet(password) with the right password
unlockWallet ==
    /\ flowStage = "ready"
    /\ flowLocked
    /\ flowLocked' = FALSE
    /\ lastOp' = "unlockWallet"
    /\ UNCHANGED <<flowStage, importType, pendingMnemonic, pendingPassword,
                   generated>>
    /\ UNCHANGED otherThanFlow

\* endSession(false) -> resetState(), by the button of the settings
endSession ==
    /\ flowStage = "ready"
    /\ ~flowLocked
    /\ flowStage' = "idle"
    /\ flowLocked' = FALSE
    /\ pendingPassword' = 0
    /\ pendingMnemonic' = 0
    /\ lastOp' = "endSession"
    /\ UNCHANGED <<importType, generated>>
    /\ UNCHANGED otherThanFlow

NextFlow ==
    \/ createNewWallet
    \/ importWallet
    \/ importFromMnemonic
    \/ SelectPrivateKey
    \/ \E p \in Passwords : confirmPassword(p)
    \/ goBack
    \/ confirmMnemonic
    \/ importMnemonicWithPassword
    \/ importFromPrivateKey
    \/ lockWallet
    \/ unlockWallet
    \/ endSession

InitFlow ==
    ClientInit /\ ServerIdle /\ WalletStart /\ ExplorerStart /\ LockStart
      /\ SessionStart /\ TxIdle /\ ParseIdle /\ DifficultyIdle /\ FetchIdle /\ RouteIdle /\ SpendIdle
      /\ FindIdle /\ ReuseIdle /\ VersionIdle /\ RateIdle /\ FlowIdle

SpecFlow == InitFlow /\ [][NextFlow]_vars

(***************************************************************************)
(* Claims about the creation flow.                                         *)
(***************************************************************************)

\* confirmPassword runs right after createNewWallet
CreateThenConfirm ==
    lastOp = "createNewWallet" /\ lastOp' = "confirmPassword"

\* the mnemonic display shows a mnemonic generated by this confirmPassword
ShowsNewMnemonic ==
    /\ flowStage' = "mnemonic-display"
    /\ generated' = generated + 1
    /\ pendingMnemonic' = generated'

\* C30: from stage idle, createNewWallet followed by confirmPassword(p)
\* leads to stage 'mnemonic-display' with a newly generated mnemonic,
\* whatever flows happened earlier in the page session.
C30_CreateShowsNewMnemonic ==
    [][CreateThenConfirm => ShowsNewMnemonic]_vars


(***************************************************************************)
(* Claims about the selection of inputs.                                   *)
(***************************************************************************)

\* ceil((10 + 68 * inputs + 31 * outputs) * feeRate) for the spend at hand
StatedFee(inputs) ==
    LET outputs == IF txIncludeFee THEN 1 ELSE 2
        vbytes == 10 + 68 * inputs + 31 * outputs
    IN  CHOOSE f \in 0..(vbytes * txFeeRate[1]) :
            /\ f * txFeeRate[2] >= vbytes * txFeeRate[1]
            /\ (f - 1) * txFeeRate[2] < vbytes * txFeeRate[1]

\* the first k utxos reach the target
Reaches(k) ==
    SumFirst(txUtxos, k) >=
        (IF txIncludeFee THEN txAmount ELSE txAmount + StatedFee(k))

\* the length of the shortest prefix that reaches the target, the length
\* of the list when none does
ShortestPrefix ==
    IF \E k \in 1..Len(txUtxos) : Reaches(k)
    THEN CHOOSE k \in 1..Len(txUtxos) :
             Reaches(k) /\ \A j \in 1..(k - 1) : ~Reaches(j)
    ELSE Len(txUtxos)

\* C31: estimateFee and buildAndSignTx select the same inputs, the shortest
\* prefix of the utxo list whose total reaches the target (the whole list
\* when none does), and use the fee ceil((10 + 68 * inputs + 31 * outputs)
\* * feeRate) for it, with 1 output when the fee is included and 2
\* otherwise.
C31_SameGreedySelection ==
    /\ (txEstimated.called /\ txUtxos # <<>> /\ txAmount > 0) =>
          /\ txEstimated.estimatedFee = StatedFee(ShortestPrefix)
          /\ txEstimated.totalNeeded =
                 IF txIncludeFee THEN txAmount
                 ELSE txAmount + StatedFee(ShortestPrefix)
    /\ txBuilt.kind = "tx" =>
          /\ txBuilt.inputs = ShortestPrefix
          /\ txBuilt.outs[1] = IF txIncludeFee
                               THEN txAmount - StatedFee(ShortestPrefix)
                               ELSE txAmount
          /\ Len(txBuilt.outs) = 2 =>
                 txBuilt.fee = StatedFee(ShortestPrefix)
    /\ (txBuilt.kind = "tx" /\ txEstimated.called) =>
          txEstimated.estimatedFee = StatedFee(txBuilt.inputs)

\* both were called for a spend of 1000 at 1.5 sats per vbyte that takes
\* both utxos of <<300, 1140>> and pays the fee 312 on top
C31_Witness ==
    /\ txEstimated.called
    /\ txBuilt.kind = "tx"
    /\ txUtxos = <<300, 1140>>
    /\ txFeeRate = <<3, 2>>
    /\ ~txIncludeFee
    /\ txBuilt.inputs = 2
    /\ txEstimated.estimatedFee = 312


\* C38: for every transaction buildAndSignTx produces, the selected inputs
\* sum to the recipient's output plus the change output (if any) plus the
\* reported fee; the reported fee is never below the estimated fee for the
\* selected inputs and exceeds it exactly by the change dropped as dust,
\* hence by at most 546.
C38_FeeBalances ==
    txBuilt.kind = "tx" =>
        LET totalIn == SumFirst(txUtxos, txBuilt.inputs)
            estimate == StatedFee(txBuilt.inputs)
            dropped == IF Len(txBuilt.outs) = 2 THEN 0
                       ELSE totalIn - txBuilt.outs[1] - estimate
        IN  /\ totalIn = SumFirst(txBuilt.outs, Len(txBuilt.outs))
                           + txBuilt.fee
            /\ txBuilt.fee >= estimate
            /\ txBuilt.fee - estimate = dropped
            /\ dropped >= 0
            /\ dropped <= 546

\* a change of 546 is dropped: the fee is 140 + 546
C38_Witness ==
    /\ txBuilt.kind = "tx"
    /\ Len(txBuilt.outs) = 1
    /\ ~txIncludeFee
    /\ txBuilt.fee = 686
    /\ StatedFee(txBuilt.inputs) = 140


(***************************************************************************)
(* Claims about the close of a reused server-side connection.              *)
(***************************************************************************)

\* the 'close' listener of the reused socket k runs
ReusedSocketCloses(k) ==
    /\ ~serverless
    /\ k \in DOMAIN socks
    /\ socks[k].st \in {"OPEN", "CLOSING"}
    /\ socks'[k].st = "CLOSED"

\* request r is rejected with 'WebSocket connection closed'
RejectedAsClosed(r) ==
    reqs[r].st = "pending" /\ reqs'[r].st = "rejClosed"

\* C32: when a reused server-side WebSocket closes, the requests rejected
\* with 'WebSocket connection closed' are exactly the pending requests
\* that were sent over that connection; requests pending on another
\* connection stay pending.
C32_CloseRejectsOwnRequests ==
    [][\A k \in 1..MaxReqs :
          ReusedSocketCloses(k) =>
              \A r \in DOMAIN reqs :
                  /\ RejectedAsClosed(r) <=>
                        (reqs[r].st = "pending" /\ reqs[r].sock = k)
                  /\ (reqs[r].st = "pending" /\ reqs[r].sock # k)
                        => reqs'[r].st = "pending"]_vars


(***************************************************************************)
(* GET /api/block (src/unnamed/part_004:7-143).  A query parameter is the  *)
(* sequence of its characters; the hash parameter is given by its kind     *)
(* (absent, empty, malformed, 64 hex digits).  The rate limit lets the     *)
(* request pass and the network parameter is valid.                        *)
(***************************************************************************)
Param(text) == [present |-> TRUE, text |-> text]

HeightParams ==
    {Absent, Param(<<>>), Param(<<"0">>), Param(<<"0", "0">>),
     Param(<<"7">>), Param(<<"1", "2">>), Param(<<"-", "1">>),
     Param(<<"a", "b">>), Param(<<"1", "x">>)}

HashParams == {"absent", "empty", "malformed", "valid"}

\* the block the hash lookup finds
FoundHeight == 5

RouteStart ==
    /\ apiHeight \in HeightParams
    /\ apiHash \in HashParams
    /\ apiBackend \in {"ok", "fails", "notFound"}
    /\ apiAnswer = NoAnswer

\* parseInt(s, 10): an optional sign and the digits that follow
parseInt(s) ==
    LET neg == Len(s) > 0 /\ s[1] = "-"
        d == ScanDigits(s, IF neg THEN 2 ELSE 1, 0, 0)
    IN  [nan |-> d.count = 0, value |-> IF neg THEN 0 - d.val ELSE d.val]

\* searchParams.get(name) || undefined: the text, <<>> standing for
\* undefined as well as for the empty string
OrUndefined(p) == IF p.present THEN p.text ELSE <<>>

\* the refinement of the height schema
HeightValid(val) ==
    val = <<>> \/ (~parseInt(val).nan /\ parseInt(val).value >= 0)

\* if (!query.height && !query.hash)
NeitherGiven(height, hash) ==
    (height.undefined \/ height.value = 0) /\ ~hash

Answer(status, error, fetched) ==
    [status |-> status, error |-> error, fetched |-> fetched]

\* fetchBlockByHeight(network, h) and the response made of it
FetchAnswer(h) ==
    IF apiBackend = "fails"
    THEN Answer(500, "Failed to fetch block from ElectrumX", 0 - 1)
    ELSE Answer(200, "none", h)

\* GET(req)
GetBlock(heightParam, hashParam) ==
    LET val == OrUndefined(heightParam)
        height == [undefined |-> val = <<>>,
                   value |-> IF val = <<>> THEN 0 ELSE parseInt(val).value]
        hash == hashParam \in {"malformed", "valid"}
    IN  IF ~HeightValid(val)
        THEN Answer(400, "Invalid request parameters", 0 - 1)
        ELSE IF NeitherGiven(height, hash)
        THEN Answer(400, "Either height or hash must be provided", 0 - 1)
        ELSE IF ~height.undefined
        THEN FetchAnswer(height.value)
        ELSE IF hashParam = "malformed"
        THEN Answer(400, "Invalid block hash format", 0 - 1)
        ELSE IF apiBackend = "notFound"
        THEN Answer(404, "Block not found", 0 - 1)
        ELSE FetchAnswer(FoundHeight)

\* the request is answered
Get ==
    /\ apiAnswer = NoAnswer
    /\ apiAnswer' = GetBlock(apiHeight, apiHash)
    /\ UNCHANGED <<apiHeight, apiHash, apiBackend>>
    /\ UNCHANGED otherThanRoute

\* the answer is delivered and the next request arrives
NextRequest ==
    /\ apiAnswer # NoAnswer
    /\ apiAnswer' = NoAnswer
    /\ apiHeight' \in HeightParams
    /\ apiHash' \in HashParams
    /\ apiBackend' \in {"ok", "fails", "notFound"}
    /\ UNCHANGED otherThanRoute

NextRoute ==
    \/ Get
    \/ NextRequest

InitRoute ==
    ClientInit /\ ServerIdle /\ WalletStart /\ ExplorerStart /\ LockStart
      /\ SessionStart /\ TxIdle /\ ParseIdle /\ DifficultyIdle /\ FetchIdle /\ SpendIdle
      /\ FindIdle /\ ReuseIdle /\ VersionIdle /\ RateIdle /\ FlowIdle
      /\ RouteStart

SpecRoute == InitRoute /\ [][NextRoute]_vars

(***************************************************************************)
(* Claims about GET /api/block.                                            *)
(***************************************************************************)

\* the height parameter is the decimal numeral of a non-negative integer
IsHeight(p) ==
    /\ p.present
    /\ p.text # <<>>
    /\ \A i \in 1..Len(p.text) : IsDigit(p.text[i])

\* C33: with height = h and no hash, GET /api/block fetches block h for
\* every non-negative integer h, 0 included; the 400 answer 'Either height
\* or hash must be provided' is given only when neither parameter is
\* present.
C33_HeightZeroFetched ==
    apiAnswer # NoAnswer =>
        /\ (IsHeight(apiHeight) /\ apiHash = "absent"
              /\ apiBackend # "fails")
              => /\ apiAnswer.status = 200
                 /\ apiAnswer.fetched = parseInt(apiHeight.text).value
        /\ apiAnswer.error = "Either height or hash must be provided"
              => /\ OrUndefined(apiHeight) = <<>>
                 /\ apiHash \in {"absent", "empty"}


(***************************************************************************)
(* Claims about overlapping unlock calls.                                  *)
(***************************************************************************)

\* verifyPassword of a call in flight returns false and the call ends
FailedVerification ==
    /\ unlockResult' = "invalid"
    /\ \E j \in DOMAIN unlocks :
          ~unlocks[j].correct /\ unlocks' = RemoveAt(unlocks, j)

\* C34: under any interleaving of overlapping unlockWallet calls, every
\* failed verification increments the attempt counter by one (so that no
\* more than 5 wrong passwords are verified before the lockout).
C34_OverlappingUnlocksCounted ==
    [][FailedVerification =>
          /\ unlockAttempts' = unlockAttempts + 1
          /\ ssAttempts' = ssAttempts + 1]_vars


(***************************************************************************)
(* Claims about the liveness check of a replaced client.                   *)
(***************************************************************************)

\* the wallet is ready on a client whose connection is alive
OnHealthyClient ==
    /\ wStatus = "ready"
    /\ electrumRef # 0
    /\ wClients[electrumRef].connected

\* C35: while the wallet is ready on a live connection, the liveness check
\* left over from a client that connect replaced never starts a
\* reconnection and never flips the status back to connecting.
C35_LeftoverCheckHarmless ==
    [][\A k \in 1..MaxClients :
          (OnHealthyClient /\ k # electrumRef /\ WHealthCheck(k))
              => /\ wStatus' = "ready"
                 /\ ~isReconnecting'
                 /\ reconnectTimer' = NoTimer]_vars


(***************************************************************************)
(* WalletProvider: lockWallet against connect, getUtxos and send           *)
(* (src/context/WalletContext.tsx:613-716, 754-790, 973-995).  The wallet  *)
(* starts unlocked and is locked at most once.  getUtxos and send are      *)
(* called through the context value, so their closures hold the isLocked   *)
(* of the latest render; a connect in progress holds the isLocked it was   *)
(* created with (false).                                                   *)
(***************************************************************************)
SpendOps == {"getUtxos", "send"}

Spent(op, what, at) ==
    [op |-> op, what |-> what, at |-> at, locked |-> wIsLocked]

\* connect(): if (isLocked) throw; if (!walletRef.current || ...) throw
UnlockedConnect == ~wIsLocked /\ wRefs /\ WConnect

\* the health check acts only while walletRef.current and
\* scripthashRef.current are set
LiveHealthCheck(k) == wRefs /\ WHealthCheck(k)

\* the 2 s reconnect timer fires while the wallet's references are set
LiveReconnect == wRefs /\ WReconnect

\* the 2 s reconnect timer fires after lockWallet cleared the references:
\* connect(true) throws 'Wallet not ready', the timer's catch and finally run
ReconnectThrows ==
    /\ ~wRefs
    /\ reconnectTimer # NoTimer
    /\ reconnectTimer' = NoTimer
    /\ wStatus' = "error"
    /\ wError' = "allUnavailable"
    /\ isReconnecting' = FALSE
    /\ UNCHANGED <<currentServerIndex, electrumRef, wClients, wProcs,
                   connects, wDead, wLog>>
    /\ UNCHANGED otherThanWallet

\* electrumRef.current?.disconnect()
Disconnected(cl, k) ==
    IF k # 0 THEN [cl EXCEPT ![k].connected = FALSE] ELSE cl

\* a lockWallet that only sets isLocked
LockFlagOnly ==
    /\ ~wIsLocked
    /\ wIsLocked' = TRUE
    /\ UNCHANGED <<wRefs, spends, lastSpend>>
    /\ UNCHANGED walletVars
    /\ UNCHANGED otherThanWalletAndSpend

\* lockWallet(): the references are cleared, the current client is
\* disconnected and dropped, status 'disconnected', isLocked true; a connect
\* in progress, the reconnect timer and the health checks are left alone
WLockWallet ==
    /\ ~wIsLocked
    /\ wIsLocked' = TRUE
    /\ wRefs' = FALSE
    /\ electrumRef' = 0
    /\ wStatus' = "disconnected"
    /\ wClients' = Collect(Disconnected(wClients, electrumRef), 0, wProcs)
    /\ UNCHANGED <<wError, currentServerIndex, isReconnecting,
                   reconnectTimer, wProcs, connects, wDead, wLog>>
    /\ UNCHANGED <<spends, lastSpend>>
    /\ UNCHANGED otherThanWalletAndSpend

\* the guards at the top of getUtxos and send
Refuses == wIsLocked \/ electrumRef = 0 \/ ~wRefs

\* getUtxos() or send() is called: it throws at its guards, or
\* client.listUnspent rejects at once on a socket that is not open, or the
\* listunspent request is sent and the call waits for the reply
SpendCall(op) ==
    /\ Len(spends) < MaxSpends
    /\ IF Refuses
       THEN /\ lastSpend' = Spent(op, "refused", "guard")
            /\ UNCHANGED spends
       ELSE IF ~wClients[electrumRef].connected
       THEN /\ lastSpend' = Spent(op, "rejected", "guard")
            /\ UNCHANGED spends
       ELSE /\ lastSpend' = Spent(op, "listUnspent", "guard")
            /\ spends' = Append(spends, [op |-> op, phase |-> "listUnspent",
                                         cli |-> electrumRef])
    /\ UNCHANGED <<wIsLocked, wRefs>>
    /\ UNCHANGED otherThanSpend

\* the reply to listunspent arrives on the open socket: getUtxos returns
\* the list; send signs with walletRef.current (buildAndSignTx throws on an
\* undefined keyPair) and sends the broadcast request
SpendReply(c) ==
    /\ c \in DOMAIN spends
    /\ spends[c].phase = "listUnspent"
    /\ wClients[spends[c].cli].connected
    /\ IF spends[c].op = "getUtxos"
       THEN /\ spends' = RemoveAt(spends, c)
            /\ lastSpend' = Spent("getUtxos", "returned", "listUnspent")
       ELSE IF wRefs
       THEN /\ spends' = [spends EXCEPT ![c].phase = "broadcast"]
            /\ lastSpend' = Spent("send", "signAndBroadcast", "listUnspent")
       ELSE /\ spends' = RemoveAt(spends, c)
            /\ lastSpend' = Spent("send", "rejected", "listUnspent")
    /\ UNCHANGED <<wIsLocked, wRefs>>
    /\ UNCHANGED otherThanSpend

\* the reply to broadcast arrives: refresh(client) asks for the balance
\* and the history if scripthashRef.current is set, and send returns
SpendBroadcast(c) ==
    /\ c \in DOMAIN spends
    /\ spends[c].phase = "broadcast"
    /\ wClients[spends[c].cli].connected
    /\ spends' = RemoveAt(spends, c)
    /\ lastSpend' = Spent("send", IF wRefs THEN "refresh" ELSE "returned",
                          "broadcast")
    /\ UNCHANGED <<wIsLocked, wRefs>>
    /\ UNCHANGED otherThanSpend

\* the pending request of the call is rejected (ElectrumClient.reset after
\* disconnect or close, the 12 s timeout, or an error reply): the call
\* throws
SpendRejected(c) ==
    /\ c \in DOMAIN spends
    /\ spends' = RemoveAt(spends, c)
    /\ lastSpend' = Spent(spends[c].op, "rejected", spends[c].phase)
    /\ UNCHANGED <<wIsLocked, wRefs>>
    /\ UNCHANGED otherThanSpend

NextSpend ==
    \/ UnlockedConnect
    \/ \E p \in 1..(MaxProcs + 1) : WAttemptFail(p)
    \/ \E p \in 1..(MaxProcs + 1) : WAttemptOk(p)
    \/ \E p \in 1..(MaxProcs + 1) : WSubscribeOk(p)
    \/ \E p \in 1..(MaxProcs + 1) : WSubscribeFail(p)
    \/ \E k \in 1..MaxClients : WClientDies(k)
    \/ \E k \in 1..MaxClients : LiveHealthCheck(k)
    \/ LiveReconnect
    \/ ReconnectThrows
    \/ WLockWallet
    \/ \E op \in SpendOps : SpendCall(op)
    \/ \E c \in 1..MaxSpends : SpendReply(c)
    \/ \E c \in 1..MaxSpends : SpendBroadcast(c)
    \/ \E c \in 1..MaxSpends : SpendRejected(c)

InitSpend == InitWallet

SpecSpend == InitSpend /\ [][NextSpend]_vars

\* C36: if lockWallet runs while a connect() is in progress, then once both
\* have finished the locked wallet holds no Electrum client and its status
\* is not 'ready'
C36_LockedHoldsNoClient ==
    (wIsLocked /\ wProcs = <<>>) => (electrumRef = 0 /\ wStatus # "ready")

\* the actions of a getUtxos() or send() that reach the server or the key
Acts == {"listUnspent", "signAndBroadcast", "refresh"}

\* C37: while the wallet is locked, send() never signs or broadcasts and
\* getUtxos() never queries the server, also when lockWallet runs while a
\* send() waits for its UTXO fetch
C37_LockedNeverSpends ==
    lastSpend.locked => lastSpend.what \notin Acts

\* a send() that was waiting for its UTXO fetch when lockWallet ran has
\* thrown, and a later call is refused at its guards
C37_Witness ==
    /\ wIsLocked
    /\ lastSpend = [op |-> "send", what |-> "rejected", at |-> "listUnspent",
                    locked |-> TRUE]


\* C39: whenever the stage is 'idle' or 'ready', pendingPassword and
\* pendingMnemonic are null
C39_NoPendingSecretsAtRest ==
    flowStage \in {"idle", "ready"}
        => (pendingPassword = 0 /\ pendingMnemonic = 0)

=============================================================================
